---- MODULE Spec2Model ----
(***************************************************************************)
(* Model of LAZERAI/ml-pipeline: the serving layer (src/api), the offline  *)
(* pipeline script (scripts/run_pipeline.py), model training               *)
(* (src/models/train.py) and data validation (src/data/validation.py).     *)
(*                                                                         *)
(* The specifications share the variables:                                 *)
(*   Spec            the HTTP service: startup (load_models) and requests  *)
(*   SpecPipeline    one run of run_pipeline                               *)
(*   SpecValidation  calls on one DataValidation object                    *)
(*   SpecValidateAll validate_all and validate_data_types on one object    *)
(*   SpecTrainer     calls on ModelTrainer objects                         *)
(*   SpecConfig      construction of Config and Config.get                 *)
(*   SpecEvaluate    calls of ModelEvaluator.evaluate                      *)
(*   SpecPrep        DataPreprocessor.handle_missing_values                *)
(*   SpecEncode      DataPreprocessing.encode_categorical                  *)
(*   SpecPreprocess  one run of DataPreprocessing.preprocess_pipeline      *)
(*   SpecDeploy      one run of run_pipeline, then the HTTP service        *)
(***************************************************************************)
EXTENDS Integers, Sequences, FiniteSets, TLC

VARIABLES
    disk,            \* artifacts/ directory: file name -> file content
    startup_pc,      \* position of load_models: "init", "loop", "assign", "done"
    startup_i,       \* index into MODEL_NAMES of the next name load_models tries
    local_models,    \* the local dict `loaded_models` of load_models
    loaded_models,   \* routes.loaded_models, the global registry
    attempted,       \* history: names whose iteration of load_models has run
    response,        \* the last HTTP exchange (request, status, body)
    p_pc,            \* position of run_pipeline
    p_i,             \* index into models_to_train / trained_models
    trained_models,  \* run_pipeline's dict trained_models
    all_reports,     \* run_pipeline's dict all_reports
    p_failed,        \* history: model types whose training raised
    p_result,        \* what run_pipeline returned or raised
    validation_report, \* DataValidation.validation_report
    v_data,          \* the DataFrame handed to the DataValidation methods
    v_call,          \* the last call made on the DataValidation object
    trainers,        \* the ModelTrainer objects of a program using train.py
    t_call,          \* the last call made on a ModelTrainer object
    DEFAULT_CONFIG,  \* the class attribute Config.DEFAULT_CONFIG
    c_file,          \* content of the configuration file
    c_env,           \* the environment variables Config reads
    c_config,        \* the Config object: its dict, or that __init__ raised
    c_call,          \* the last call of Config.get
    e_dir,           \* the evaluator's artifacts directory: file name -> report
    e_clock,         \* the wall clock in whole seconds
    e_calls,         \* history: number of evaluate calls that returned
    e_call,          \* the last call of ModelEvaluator.evaluate
    h_data,          \* the table handed to handle_missing_values
    h_result,        \* what handle_missing_values returned
    pp_pc,           \* position of preprocess_pipeline
    pp_target,       \* preprocess_pipeline's argument target_column
    pp_data,         \* preprocess_pipeline's local `data`
    pp_self,         \* the DataPreprocessing object: scaler, label_encoders
    pp_split,        \* the locals X_train, X_test, y_train, y_test
    pp_files         \* artifacts/ and data/processed: file name -> content

vars == <<disk, startup_pc, startup_i, local_models, loaded_models, attempted,
          response, p_pc, p_i, trained_models, all_reports, p_failed, p_result,
          validation_report, v_data, v_call, trainers, t_call, DEFAULT_CONFIG,
          c_file, c_env, c_config, c_call, e_dir, e_clock, e_calls, e_call, h_data, h_result,
          pp_pc, pp_target, pp_data, pp_self, pp_split, pp_files>>

serveVars == <<startup_pc, startup_i, local_models, loaded_models, attempted, response>>
pipeVars  == <<p_pc, p_i, trained_models, all_reports, p_failed, p_result>>
validVars == <<validation_report, v_data, v_call>>
trainVars == <<trainers, t_call>>
cfgVars   == <<DEFAULT_CONFIG, c_file, c_env, c_config, c_call>>
evalVars  == <<e_dir, e_clock, e_calls, e_call>>
ppVars    == <<pp_pc, pp_target, pp_data, pp_self, pp_split, pp_files>>
prepVars  == <<h_data, h_result, ppVars>>

-----------------------------------------------------------------------------
(* Bounds *)

MaxKeys  == 2    \* distinct well-formed feature vectors
MaxBatch == 2    \* instances in one batch request
MaxRows  == 2    \* rows of a validated dataset
MaxReq   == 2    \* length of a required_columns list
MaxClock == 1    \* seconds the wall clock advances between evaluate calls
MaxEvals == 3    \* calls of evaluate

-----------------------------------------------------------------------------
(* Python dicts: insertion-ordered sequences of <<key, value>> pairs *)

EmptyDict == <<>>

DictKeys(d) == [i \in 1..Len(d) |-> d[i][1]]

DictKeySet(d) == {d[i][1] : i \in 1..Len(d)}

DictHas(d, k) == \E i \in 1..Len(d) : d[i][1] = k

DictGet(d, k) == d[CHOOSE i \in 1..Len(d) : d[i][1] = k][2]

DictSet(d, k, v) ==
    IF DictHas(d, k)
    THEN [i \in 1..Len(d) |-> IF d[i][1] = k THEN <<k, v>> ELSE d[i]]
    ELSE Append(d, <<k, v>>)

SeqToSet(s) == {s[i] : i \in 1..Len(s)}

-----------------------------------------------------------------------------
(* Feature vectors and fitted classifiers *)

NumFeatures == 54

\* A feature vector as sent by a client: its length, whether every element
\* converts to a float, and (for well-formed vectors) which point it is.
VectorKeys == 1..MaxKeys

WellFormedVectors == {[len |-> NumFeatures, elems |-> "number", key |-> k] : k \in VectorKeys}

MalformedVectors ==
    { [len |-> NumFeatures - 1, elems |-> "number", key |-> 1],
      [len |-> NumFeatures + 1, elems |-> "number", key |-> 1],
      [len |-> NumFeatures,     elems |-> "text",   key |-> 1] }

FeatureVectors == WellFormedVectors \cup MalformedVectors

MODEL_NAMES == <<"random_forest", "logistic_regression", "decision_tree", "gradient_boosting">>

MODELS == SeqToSet(MODEL_NAMES)

CoverTypes == 1..7

KindIndex(name) == CHOOSE i \in 1..Len(MODEL_NAMES) : MODEL_NAMES[i] = name

\* The decision function of the estimator that fitting `name` on the Covtype
\* training split produces; run 0 is the current run, run 1 an earlier one.
FitTable(name, run) == [k \in VectorKeys |-> ((2 * KindIndex(name) + 3 * k + run) % 7) + 1]

NoModel == [kind |-> "None", fitted |-> FALSE, table |-> <<>>]

Unfitted(name) == [kind |-> name, fitted |-> FALSE, table |-> <<>>]

Fitted(name, run) == [kind |-> name, fitted |-> TRUE, table |-> FitTable(name, run)]

EmptyInfo == [model_name |-> "", fit |-> <<>>]

InfoOf(clf) == [model_name |-> clf.kind, fit |-> clf.table]

-----------------------------------------------------------------------------
(* src/models/train.py: ModelTrainer *)

\* ModelTrainer.__init__
NewTrainer == [model |-> NoModel, model_name |-> "None", training_info |-> EmptyInfo]

\* Files of the artifacts directory
Absent  == [kind |-> "absent",  model |-> NoModel, training_info |-> EmptyInfo]

Corrupt == [kind |-> "corrupt", model |-> NoModel, training_info |-> EmptyInfo]

Pickle(model, info) == [kind |-> "pickle", model |-> model, training_info |-> info]

\* sklearn estimator.predict on a 2-D array of rows: raises on an unfitted
\* estimator, on rows whose width is not the training width, and on
\* non-numeric cells; otherwise one training label per row.
EstimatorPredict(clf, rows) ==
    IF clf.fitted /\ \A i \in 1..Len(rows) :
                        rows[i].len = NumFeatures /\ rows[i].elems = "number"
    THEN [raised |-> FALSE, value |-> [i \in 1..Len(rows) |-> clf.table[rows[i].key]]]
    ELSE [raised |-> TRUE, value |-> <<>>]

\* ModelTrainer.predict
TrainerPredict(trainer, rows) ==
    IF trainer.model = NoModel
    THEN [raised |-> TRUE, value |-> <<>>]
    ELSE EstimatorPredict(trainer.model, rows)

\* Variant that falls back to the default type for an unknown name.
TrainerGetModelOrDefault(model_name) ==
    [raised |-> FALSE, error |-> [type |-> "None", unknown |-> "", available |-> <<>>],
     model |-> Unfitted(IF model_name \in MODELS THEN model_name ELSE "random_forest")]

\* ModelTrainer.get_model: an unfitted estimator, or ValueError naming the
\* available types.
TrainerGetModel(model_name) ==
    IF model_name \notin MODELS
    THEN [raised |-> TRUE, error |-> [type |-> "ValueError", unknown |-> model_name,
                                      available |-> MODEL_NAMES],
          model |-> NoModel]
    ELSE [raised |-> FALSE, error |-> [type |-> "None", unknown |-> "", available |-> <<>>],
          model |-> Unfitted(model_name)]

\* ModelTrainer.train; fitOk says whether estimator.fit returns normally.
TrainerTrain(trainer, model_name, fitOk) ==
    LET named == [trainer EXCEPT !.model_name = model_name]
        got   == TrainerGetModel(model_name)
    IN  IF got.raised
        THEN [raised |-> TRUE, trainer |-> named]
        ELSE IF ~fitOk
        THEN [raised |-> TRUE, trainer |-> [named EXCEPT !.model = got.model]]
        ELSE [raised |-> FALSE,
              trainer |-> [named EXCEPT !.model = Fitted(model_name, 0),
                                        !.training_info = InfoOf(Fitted(model_name, 0))]]

\* ModelTrainer.save_model with an explicit file name
TrainerSaveModel(trainer, filename) ==
    IF trainer.model = NoModel
    THEN [raised |-> TRUE, path |-> "", file |-> Absent]
    ELSE [raised |-> FALSE, path |-> filename,
          file |-> Pickle(trainer.model, trainer.training_info)]

\* Variant that restores the estimator only.
TrainerLoadModelOnly(trainer, file) ==
    IF file.kind = "pickle"
    THEN [raised |-> FALSE, trainer |-> [trainer EXCEPT !.model = file.model]]
    ELSE [raised |-> TRUE, trainer |-> trainer]

\* ModelTrainer.load_model: joblib.load raises on a missing or damaged file.
TrainerLoadModel(trainer, file) ==
    IF file.kind = "pickle"
    THEN [raised |-> FALSE,
          trainer |-> [trainer EXCEPT !.model = file.model,
                                      !.training_info = file.training_info]]
    ELSE [raised |-> TRUE, trainer |-> trainer]

-----------------------------------------------------------------------------
(* src/api/main.py: startup *)

ModelFile(model_name) ==
    CASE model_name = "random_forest"       -> "model_random_forest.pkl"
      [] model_name = "logistic_regression" -> "model_logistic_regression.pkl"
      [] model_name = "decision_tree"       -> "model_decision_tree.pkl"
      [] model_name = "gradient_boosting"   -> "model_gradient_boosting.pkl"

LegacyFile == "model.pkl"

Paths == {ModelFile(n) : n \in MODELS} \cup {LegacyFile}

PathExists(d, path) == d[path].kind # "absent"

\* The path load_models settles on for a name (model.pkl fallback for
\* random_forest when its own file does not exist).
ModelPath(d, model_name) ==
    IF model_name = "random_forest" /\ ~PathExists(d, ModelFile(model_name))
    THEN LegacyFile
    ELSE ModelFile(model_name)

\* Variant of the loop body that registers the trainer although load_model
\* raised.
LoadOneKeepFailed(d, models, model_name) ==
    LET model_path == ModelPath(d, model_name)
        loaded     == TrainerLoadModel(NewTrainer, d[model_path])
    IN  IF PathExists(d, model_path)
        THEN DictSet(models, model_name, loaded.trainer)
        ELSE models

\* One iteration of the loop of load_models for one name: the dict after it.
LoadOne(d, models, model_name) ==
    LET model_path == ModelPath(d, model_name)
        loaded     == TrainerLoadModel(NewTrainer, d[model_path])
    IN  IF PathExists(d, model_path) /\ ~loaded.raised
        THEN DictSet(models, model_name, loaded.trainer)
        ELSE models

\* routes.set_loaded_models
set_loaded_models(models) == models

NoResponse == [endpoint |-> "none", request |-> <<>>, status |-> 0, body |-> <<>>,
               computed |-> FALSE]

\* The startup event runs before the server accepts its first request.
StartupBegin ==
    /\ startup_pc = "init"
    /\ response = NoResponse
    /\ local_models' = EmptyDict
    /\ startup_i' = 1
    /\ startup_pc' = "loop"
    /\ UNCHANGED <<disk, loaded_models, attempted, response, pipeVars, validVars,
                   trainVars, cfgVars, evalVars, prepVars>>

\* Variant of the loop iteration that writes each loaded model into the
\* registry as soon as it is loaded.
StartupLoadPublishing ==
    /\ startup_pc = "loop"
    /\ startup_i <= Len(MODEL_NAMES)
    /\ local_models' = LoadOne(disk, local_models, MODEL_NAMES[startup_i])
    /\ loaded_models' = set_loaded_models(local_models')
    /\ attempted' = attempted \cup {MODEL_NAMES[startup_i]}
    /\ startup_i' = startup_i + 1
    /\ UNCHANGED <<disk, startup_pc, response, pipeVars, validVars,
                   trainVars, cfgVars, evalVars, prepVars>>

StartupLoad ==
    /\ startup_pc = "loop"
    /\ startup_i <= Len(MODEL_NAMES)
    /\ local_models' = LoadOne(disk, local_models, MODEL_NAMES[startup_i])
    /\ attempted' = attempted \cup {MODEL_NAMES[startup_i]}
    /\ startup_i' = startup_i + 1
    /\ UNCHANGED <<disk, startup_pc, loaded_models, response, pipeVars, validVars,
                   trainVars, cfgVars, evalVars, prepVars>>

StartupFinish ==
    /\ startup_pc = "loop"
    /\ startup_i > Len(MODEL_NAMES)
    /\ loaded_models' = set_loaded_models(local_models)
    /\ startup_pc' = "done"
    /\ UNCHANGED <<disk, startup_i, local_models, attempted, response, pipeVars, validVars,
                   trainVars, cfgVars, evalVars, prepVars>>

-----------------------------------------------------------------------------
(* src/api/schemas.py: request validation done by the framework before a     *)
(* handler runs; a body that fails it is answered 422 and no handler runs.   *)

\* Variant of the request schema without max_length.
ValidPredictionRequestNoMax(req) ==
    /\ req.features.len >= NumFeatures
    /\ req.features.elems = "number"
    /\ req.model \in MODELS \cup {"None"}

\* PredictionRequest: exactly 54 floats, model one of the ModelType names or null
ValidPredictionRequest(req) ==
    /\ req.features.len = NumFeatures
    /\ req.features.elems = "number"
    /\ req.model \in MODELS \cup {"None"}

\* BatchPredictionRequest: List[List[float]], no length constraint
ValidBatchPredictionRequest(req) ==
    \A i \in 1..Len(req.instances) : req.instances[i].elems = "number"

\* PredictionResponse: prediction is an int with ge=1, le=7
ValidPredictionResponse(prediction) == prediction >= 1 /\ prediction <= 7

UnknownModelName == "xgboost"

PredictionRequests == [features : FeatureVectors, model : MODELS \cup {"None", UnknownModelName}]

SeqsUpTo(S, n) == UNION {[1..m -> S] : m \in 0..n}

\* Batch instances: the well-formed vectors, a short one and a non-numeric one
BatchVectors == {v \in FeatureVectors : v.len <= NumFeatures}

BatchPredictionRequests == [instances : SeqsUpTo(BatchVectors, MaxBatch)]

-----------------------------------------------------------------------------
(* src/api/routes.py *)

default_model_name == "random_forest"

COVER_TYPE_LABELS ==
    [c \in CoverTypes |->
        CASE c = 1 -> "Spruce/Fir"
          [] c = 2 -> "Lodgepole Pine"
          [] c = 3 -> "Ponderosa Pine"
          [] c = 4 -> "Cottonwood/Willow"
          [] c = 5 -> "Aspen"
          [] c = 6 -> "Douglas-fir"
          [] c = 7 -> "Krummholz"]

\* Variant of the label lookup that treats the class id as a 0-based index.
LabelOfZeroBased(prediction) ==
    IF prediction + 1 \in DOMAIN COVER_TYPE_LABELS
    THEN COVER_TYPE_LABELS[prediction + 1] ELSE "None"

\* COVER_TYPE_LABELS.get(int(prediction), None)
LabelOf(prediction) ==
    IF prediction \in DOMAIN COVER_TYPE_LABELS THEN COVER_TYPE_LABELS[prediction] ELSE "None"

\* The names bound at module level in routes.py that handlers read
RoutesGlobals(models) == [loaded_models |-> models, default_model_name |-> default_model_name]

\* Variant of get_model that falls back to the default model's trainer when
\* the name is not in the registry.
get_model_or_default(models, model_name) ==
    IF DictHas(models, model_name)
    THEN [isNone |-> FALSE, trainer |-> DictGet(models, model_name)]
    ELSE IF DictHas(models, default_model_name)
    THEN [isNone |-> FALSE, trainer |-> DictGet(models, default_model_name)]
    ELSE [isNone |-> TRUE, trainer |-> NewTrainer]

\* get_model: the trainer stored under the name, or None
get_model(models, model_name) ==
    IF DictHas(models, model_name)
    THEN [isNone |-> FALSE, trainer |-> DictGet(models, model_name)]
    ELSE [isNone |-> TRUE, trainer |-> NewTrainer]

\* hasattr(model, 'predict_proba'): all four estimator classes define it
HasPredictProba(clf) == clf.kind \in MODELS

Exchange(endpoint, request, status, body, computed) ==
    [endpoint |-> endpoint, request |-> request, status |-> status, body |-> body,
     computed |-> computed]

\* GET /health
health_check == [status |-> "healthy", message |-> "Service is running"]

\* GET /
root == [name |-> "ML Pipeline API", version |-> "1.0.0", docs |-> "/docs", health |-> "/health"]

\* Variant of get_model_info that counts the known model names instead of
\* the loaded ones.
get_model_info_known_count(models) ==
    IF models = EmptyDict
    THEN [available_models |-> <<>>, default_model |-> "None", models_count |-> 0,
          models_info |-> EmptyDict]
    ELSE [available_models |-> DictKeys(models),
          default_model |-> default_model_name,
          models_count |-> Len(MODEL_NAMES),
          models_info |-> [i \in 1..Len(models) |->
                              <<models[i][1],
                                [loaded |-> models[i][2].model # NoModel,
                                 training_info |-> models[i][2].training_info]>>]]

\* GET /model/info: the returned dict
get_model_info(models) ==
    IF models = EmptyDict
    THEN [available_models |-> <<>>, default_model |-> "None", models_count |-> 0,
          models_info |-> EmptyDict]
    ELSE [available_models |-> DictKeys(models),
          default_model |-> default_model_name,
          models_count |-> Len(models),
          models_info |-> [i \in 1..Len(models) |->
                              <<models[i][1],
                                [loaded |-> models[i][2].model # NoModel,
                                 training_info |-> models[i][2].training_info]>>]]

\* POST /predict; probaOk says whether predict_proba returns normally.
predict(models, req, probaOk) ==
    IF ~ValidPredictionRequest(req)
    THEN Exchange("predict", req, 422, [detail |-> "validation error"], FALSE)
    ELSE
    LET model_name    == IF req.model # "None" THEN req.model ELSE default_model_name
        model_trainer == get_model(models, model_name)
    IN  IF model_trainer.isNone \/ model_trainer.trainer.model = NoModel
        THEN Exchange("predict", req, 503,
                      [detail |-> [model |-> model_name, available |-> DictKeys(models)]],
                      FALSE)
        ELSE
        LET predicted == TrainerPredict(model_trainer.trainer, <<req.features>>)
        IN  IF predicted.raised
            THEN Exchange("predict", req, 400, [detail |-> "predict raised"], TRUE)
            ELSE
            LET prediction       == predicted.value[1]
                prediction_label == LabelOf(prediction)
                probability      == IF HasPredictProba(model_trainer.trainer.model) /\ probaOk
                                    THEN "list" ELSE "None"
            IN  IF ~ValidPredictionResponse(prediction)
                THEN Exchange("predict", req, 400, [detail |-> "response validation"], TRUE)
                ELSE Exchange("predict", req, 200,
                              [prediction |-> prediction,
                               prediction_label |-> prediction_label,
                               probability |-> probability], TRUE)

\* POST /predict/batch.  The handler reads the name model_trainer, which is
\* bound neither locally nor at module level: evaluating it raises NameError
\* outside the try block, which the framework answers with 500.
predict_batch(models, req) ==
    IF ~ValidBatchPredictionRequest(req)
    THEN Exchange("predict_batch", req, 422, [detail |-> "validation error"], FALSE)
    ELSE IF "model_trainer" \notin DOMAIN RoutesGlobals(models)
    THEN Exchange("predict_batch", req, 500, [detail |-> "NameError: model_trainer"], FALSE)
    ELSE
    LET model_trainer == RoutesGlobals(models)["model_trainer"]
    IN  IF model_trainer.model = NoModel
        THEN Exchange("predict_batch", req, 503, [detail |-> "Model not loaded"], FALSE)
        ELSE
        LET predictions == TrainerPredict(model_trainer, req.instances)
        IN  IF predictions.raised
            THEN Exchange("predict_batch", req, 400, [detail |-> "predict raised"], TRUE)
            ELSE Exchange("predict_batch", req, 200,
                          [predictions |-> predictions.value,
                           count |-> Len(predictions.value)], TRUE)

\* load_models is a coroutine without an await: no handler runs between its
\* statements.  Handlers run before it (a client that never triggers the
\* startup event) or after it.
Serving == startup_pc \in {"init", "done"}

GetHealth ==
    /\ Serving
    /\ response' = Exchange("health", <<>>, 200, health_check, FALSE)
    /\ UNCHANGED <<disk, startup_pc, startup_i, local_models, loaded_models, attempted,
                   pipeVars, validVars,
                   trainVars, cfgVars, evalVars, prepVars>>

GetRoot ==
    /\ Serving
    /\ response' = Exchange("root", <<>>, 200, root, FALSE)
    /\ UNCHANGED <<disk, startup_pc, startup_i, local_models, loaded_models, attempted,
                   pipeVars, validVars,
                   trainVars, cfgVars, evalVars, prepVars>>

GetModelInfo ==
    /\ Serving
    /\ response' = Exchange("model_info", <<>>, 200, get_model_info(loaded_models), FALSE)
    /\ UNCHANGED <<disk, startup_pc, startup_i, local_models, loaded_models, attempted,
                   pipeVars, validVars,
                   trainVars, cfgVars, evalVars, prepVars>>

PostPredict ==
    /\ Serving
    /\ \E req \in PredictionRequests, probaOk \in BOOLEAN :
           response' = predict(loaded_models, req, probaOk)
    /\ UNCHANGED <<disk, startup_pc, startup_i, local_models, loaded_models, attempted,
                   pipeVars, validVars,
                   trainVars, cfgVars, evalVars, prepVars>>

PostPredictBatch ==
    /\ Serving
    /\ \E req \in BatchPredictionRequests :
           response' = predict_batch(loaded_models, req)
    /\ UNCHANGED <<disk, startup_pc, startup_i, local_models, loaded_models, attempted,
                   pipeVars, validVars,
                   trainVars, cfgVars, evalVars, prepVars>>

-----------------------------------------------------------------------------
(* src/data/validation.py: DataValidation *)

\* DataFrames: a row count, a set of column names and, per column, its cells
\* ("null" for None/NaN).  Columns are listed in the order of ColumnOrder.
ColumnOrder == <<"a", "b">>

ColNames == SeqToSet(ColumnOrder)

RequiredNames == ColNames \cup {"missing"}

CellValues == {"null", "x"}

DataFrames ==
    UNION { UNION { {[nrows |-> n, cols |-> cs, cells |-> f] :
                        f \in [cs -> [1..n -> CellValues]]} :
                    cs \in SUBSET ColNames } :
            n \in 0..MaxRows }

Columns(data) == SelectSeq(ColumnOrder, LAMBDA c : c \in data.cols)

\* Rationals num/den in lowest terms stand for the float values; den = 0 is NaN.
RECURSIVE Gcd(_, _)
Gcd(a, b) == IF b = 0 THEN a ELSE Gcd(b, a % b)

Ratio(num, den) ==
    IF den = 0 THEN [num |-> 0, den |-> 0]
    ELSE [num |-> num \div Gcd(num, den), den |-> den \div Gcd(num, den)]

\* Variant of the comparison: x >= y
GreaterOrEqual(x, y) == x.den # 0 /\ y.den # 0 /\ x.num * y.den >= y.num * x.den

\* x > y on floats; every comparison with NaN is false
GreaterThan(x, y) == x.den # 0 /\ y.den # 0 /\ x.num * y.den > y.num * x.den

Thresholds == {Ratio(0, 1), Ratio(3, 10), Ratio(1, 2), Ratio(1, 1)}

\* data[col].isnull().sum()
RECURSIVE NullSum(_, _)
NullSum(cells, n) ==
    IF n = 0 THEN 0
    ELSE NullSum(cells, n - 1) + (IF cells[n] = "null" THEN 1 ELSE 0)

\* data.isnull().sum() / len(data), per column
MissingRatio(data, col) == Ratio(NullSum(data.cells[col], data.nrows), data.nrows)

NoCall == [op |-> "none", required |-> <<>>, threshold |-> Ratio(0, 0), ret |-> FALSE]

\* Variant of the column check that stops at the first absent name.
FirstMissingColumn(data, required_columns) ==
    LET missing == SelectSeq(required_columns, LAMBDA col : col \notin data.cols)
    IN  IF missing = <<>> THEN <<>> ELSE <<missing[1]>>

\* validate_columns: the names of required_columns that are not columns
MissingColumns(data, required_columns) ==
    SelectSeq(required_columns, LAMBDA col : col \notin data.cols)

\* validate_missing_values: problematic.to_dict()
HighMissingColumns(data, threshold) ==
    LET problematic == SelectSeq(Columns(data),
                                 LAMBDA col : GreaterThan(MissingRatio(data, col), threshold))
    IN  [i \in 1..Len(problematic) |-> <<problematic[i], MissingRatio(data, problematic[i])>>]

validate_columns ==
    \E required_columns \in SeqsUpTo(RequiredNames, MaxReq) :
        LET missing == MissingColumns(v_data, required_columns)
        IN  /\ validation_report' = DictSet(validation_report, "missing_columns", missing)
            /\ v_call' = [op |-> "validate_columns", required |-> required_columns,
                          threshold |-> Ratio(0, 0), ret |-> (missing = <<>>)]
            /\ UNCHANGED <<disk, v_data, serveVars, pipeVars,
                         trainVars, cfgVars, evalVars, prepVars>>

validate_missing_values ==
    \E threshold \in Thresholds :
        LET problematic == HighMissingColumns(v_data, threshold)
        IN  /\ validation_report' =
                   DictSet(validation_report, "high_missing_columns", problematic)
            /\ v_call' = [op |-> "validate_missing_values", required |-> <<>>,
                          threshold |-> threshold, ret |-> (Len(problematic) = 0)]
            /\ UNCHANGED <<disk, v_data, serveVars, pipeVars,
                         trainVars, cfgVars, evalVars, prepVars>>

-----------------------------------------------------------------------------
(* Idle values of the parts a specification does not exercise *)

PipeIdle ==
    /\ p_pc = "idle"
    /\ p_i = 0
    /\ trained_models = EmptyDict
    /\ all_reports = EmptyDict
    /\ p_failed = {}
    /\ p_result = [kind |-> "none", report |-> "None"]

ValidIdle ==
    /\ validation_report = EmptyDict
    /\ v_data = [nrows |-> 0, cols |-> {}, cells |-> <<>>]
    /\ v_call = NoCall

ServeIdle ==
    /\ startup_pc = "idle"
    /\ startup_i = 0
    /\ local_models = EmptyDict
    /\ loaded_models = EmptyDict
    /\ attempted = {}
    /\ response = NoResponse

TrainIdle ==
    /\ trainers = <<>>
    /\ t_call = [op |-> "none"]

CfgIdle ==
    /\ DEFAULT_CONFIG = EmptyDict
    /\ c_file = [kind |-> "absent"]
    /\ c_env = {}
    /\ c_config = [constructed |-> FALSE]
    /\ c_call = [op |-> "none"]

EvalIdle ==
    /\ e_dir = EmptyDict
    /\ e_clock = 0
    /\ e_calls = 0
    /\ e_call = [op |-> "none"]

PreprocessIdle ==
    /\ pp_pc = "idle"
    /\ pp_target = ""
    /\ pp_data = [nrows |-> 0, cols |-> <<>>, names |-> <<>>]
    /\ pp_self = [scaler |-> [fitted |-> FALSE], label_encoders |-> EmptyDict]
    /\ pp_split = [X_train |-> <<>>, X_test |-> <<>>, y_train |-> <<>>, y_test |-> <<>>]
    /\ pp_files = EmptyDict

PrepIdle ==
    /\ h_data = [nrows |-> 0, cols |-> <<>>]
    /\ h_result = [op |-> "none"]
    /\ PreprocessIdle

-----------------------------------------------------------------------------
(* The HTTP service *)

\* What may lie at a path of artifacts/ when the service starts: nothing, a
\* damaged file, or the bundle an earlier pipeline run saved there.
FilesAt(path) ==
    IF path = LegacyFile
    THEN {Absent, Corrupt,
          Pickle(Fitted("random_forest", 1), InfoOf(Fitted("random_forest", 1)))}
    ELSE LET name == CHOOSE n \in MODELS : ModelFile(n) = path
         IN  {Absent, Corrupt, Pickle(Fitted(name, 0), InfoOf(Fitted(name, 0)))}

Disks == {d \in [Paths -> UNION {FilesAt(p) : p \in Paths}] : \A p \in Paths : d[p] \in FilesAt(p)}

Init ==
    /\ disk \in Disks
    /\ startup_pc = "init"
    /\ startup_i = 0
    /\ local_models = EmptyDict
    /\ loaded_models = EmptyDict
    /\ attempted = {}
    /\ response = NoResponse
    /\ PipeIdle
    /\ TrainIdle /\ CfgIdle /\ EvalIdle /\ PrepIdle
    /\ ValidIdle

Next ==
    \/ StartupBegin
    \/ StartupLoad
    \/ StartupFinish
    \/ GetHealth
    \/ GetRoot
    \/ GetModelInfo
    \/ PostPredict
    \/ PostPredictBatch

Spec == Init /\ [][Next]_vars

-----------------------------------------------------------------------------
(* scripts/run_pipeline.py *)

models_to_train == <<"random_forest", "logistic_regression", "decision_tree", "gradient_boosting">>

\* ModelEvaluator.evaluate as the script uses it: the report of one model
EvaluationReport(model_type, model) == [model_name |-> model_type, evaluated |-> model]

\* Steps 1-3: ingestion, validation, preprocessing give the train/test split
PipelinePrepare ==
    /\ p_pc = "start"
    /\ p_pc' = "train"
    /\ p_i' = 1
    /\ trained_models' = EmptyDict
    /\ UNCHANGED <<disk, all_reports, p_failed, p_result, serveVars, validVars,
                   trainVars, cfgVars, evalVars, prepVars>>

\* Variant of the loop iteration that records the trained model without
\* saving it.
PipelineTrainWithoutSaving ==
    /\ p_pc = "train"
    /\ p_i <= Len(models_to_train)
    /\ \E fitOk \in BOOLEAN :
         LET model_type == models_to_train[p_i]
             trained    == TrainerTrain(NewTrainer, model_type, fitOk)
         IN  IF trained.raised
             THEN /\ p_failed' = p_failed \cup {model_type}
                  /\ UNCHANGED <<disk, trained_models>>
             ELSE /\ trained_models' =
                        DictSet(trained_models, model_type,
                                [trainer |-> trained.trainer, path |-> ModelFile(model_type),
                                 duration |-> trained.trainer.training_info])
                  /\ UNCHANGED <<disk, p_failed>>
    /\ p_i' = p_i + 1
    /\ UNCHANGED <<p_pc, all_reports, p_result, serveVars, validVars,
                   trainVars, cfgVars, evalVars, prepVars>>

\* Step 4, one iteration of the training loop: train, save, record; any
\* exception is caught and printed.
PipelineTrain ==
    /\ p_pc = "train"
    /\ p_i <= Len(models_to_train)
    /\ \E fitOk \in BOOLEAN :
         LET model_type == models_to_train[p_i]
             trained    == TrainerTrain(NewTrainer, model_type, fitOk)
             saved      == TrainerSaveModel(trained.trainer, ModelFile(model_type))
         IN  IF trained.raised \/ saved.raised
             THEN /\ p_failed' = p_failed \cup {model_type}
                  /\ UNCHANGED <<disk, trained_models>>
             ELSE /\ disk' = [disk EXCEPT ![saved.path] = saved.file]
                  /\ trained_models' =
                        DictSet(trained_models, model_type,
                                [trainer |-> trained.trainer, path |-> saved.path,
                                 duration |-> trained.trainer.training_info])
                  /\ UNCHANGED p_failed
    /\ p_i' = p_i + 1
    /\ UNCHANGED <<p_pc, all_reports, p_result, serveVars, validVars,
                   trainVars, cfgVars, evalVars, prepVars>>

\* After the loop: copy the random_forest artifact to model.pkl, then pick
\* trained_models['random_forest'] for evaluation (KeyError if it is absent,
\* which nothing catches).
PipelineSelect ==
    /\ p_pc = "train"
    /\ p_i > Len(models_to_train)
    /\ IF DictHas(trained_models, "random_forest")
       THEN /\ disk' = [disk EXCEPT ![LegacyFile] =
                            disk[DictGet(trained_models, "random_forest").path]]
            /\ p_pc' = "evaluate"
            /\ p_i' = 1
            /\ UNCHANGED p_result
       ELSE /\ p_pc' = "crashed"
            /\ p_result' = [kind |-> "KeyError", report |-> "None"]
            /\ UNCHANGED <<disk, p_i>>
    /\ UNCHANGED <<trained_models, all_reports, p_failed, serveVars, validVars,
                   trainVars, cfgVars, evalVars, prepVars>>

\* Step 5, one iteration of the evaluation loop over trained_models
PipelineEvaluate ==
    /\ p_pc = "evaluate"
    /\ p_i <= Len(trained_models)
    /\ LET model_type == trained_models[p_i][1]
           model_data == trained_models[p_i][2]
       IN  all_reports' = DictSet(all_reports, model_type,
                                  EvaluationReport(model_type, model_data.trainer.model))
    /\ p_i' = p_i + 1
    /\ UNCHANGED <<disk, p_pc, trained_models, p_failed, p_result, serveVars, validVars,
                   trainVars, cfgVars, evalVars, prepVars>>

\* Best model, main report, step 6 (save the random_forest trainer as
\* model.pkl) and return.
PipelineFinish ==
    /\ p_pc = "evaluate"
    /\ p_i > Len(trained_models)
    /\ LET trainer == DictGet(trained_models, "random_forest").trainer
           saved   == TrainerSaveModel(trainer, LegacyFile)
       IN  IF all_reports = EmptyDict \/ ~DictHas(all_reports, "random_forest") \/ saved.raised
           THEN /\ p_pc' = "crashed"
                /\ p_result' = [kind |-> "raised", report |-> "None"]
                /\ UNCHANGED disk
           ELSE /\ disk' = [disk EXCEPT ![saved.path] = saved.file]
                /\ p_pc' = "done"
                /\ p_result' = [kind |-> "returned",
                                report |-> DictGet(all_reports, "random_forest")]
    /\ UNCHANGED <<p_i, trained_models, all_reports, p_failed, serveVars, validVars,
                   trainVars, cfgVars, evalVars, prepVars>>

InitPipeline ==
    /\ disk \in Disks
    /\ p_pc = "start"
    /\ p_i = 0
    /\ trained_models = EmptyDict
    /\ all_reports = EmptyDict
    /\ p_failed = {}
    /\ p_result = [kind |-> "none", report |-> "None"]
    /\ ServeIdle
    /\ TrainIdle /\ CfgIdle /\ EvalIdle /\ PrepIdle
    /\ ValidIdle

NextPipeline ==
    \/ PipelinePrepare
    \/ PipelineTrain
    \/ PipelineSelect
    \/ PipelineEvaluate
    \/ PipelineFinish

SpecPipeline == InitPipeline /\ [][NextPipeline]_vars

-----------------------------------------------------------------------------
(* Calls on one DataValidation object, for one DataFrame *)

InitValidation ==
    /\ disk = [p \in Paths |-> Absent]
    /\ validation_report = EmptyDict
    /\ v_data \in DataFrames
    /\ v_call = NoCall
    /\ ServeIdle
    /\ PipeIdle
    /\ TrainIdle /\ CfgIdle /\ EvalIdle /\ PrepIdle

NextValidation ==
    \/ validate_columns
    \/ validate_missing_values

SpecValidation == InitValidation /\ [][NextValidation]_vars

-----------------------------------------------------------------------------
(* src/data/validation.py: validate_data_types and validate_all *)

\* Strings that are searched for substrings are tuples of characters.
Str_float64 == <<"f", "l", "o", "a", "t", "6", "4">>

Str_object == <<"o", "b", "j", "e", "c", "t">>

Str_float == <<"f", "l", "o", "a", "t">>

Str_int == <<"i", "n", "t">>

\* expected in actual
IsSubstring(expected, actual) ==
    \E i \in 1..(Len(actual) - Len(expected) + 1) :
        SubSeq(actual, i, i + Len(expected) - 1) = expected

\* str(data[col].dtype): column "a" holds floats, column "b" holds strings
DTypeOf(data, col) == IF col = "a" THEN Str_float64 ELSE Str_object

\* validate_data_types: the dict type_mismatches
TypeMismatches(data, expected_types) ==
    LET checked == SelectSeq(expected_types,
                             LAMBDA e : /\ e[1] \in data.cols
                                        /\ ~IsSubstring(e[2], DTypeOf(data, e[1])))
    IN  [i \in 1..Len(checked) |->
            <<checked[i][1],
              [expected |-> checked[i][2], actual |-> DTypeOf(data, checked[i][1])]>>]

\* The arguments validate_all and validate_data_types are called with.  An
\* empty list or dict is falsy like None.
AllRequired == {<<>>, <<"a">>, <<"missing">>}

AllExpected ==
    { EmptyDict,
      << <<"a", Str_float>> >>,
      << <<"missing", Str_int>>, <<"b", Str_int>> >> }

AllThresholds == {Ratio(3, 10), Ratio(1, 1)}

any(bools) == \E i \in DOMAIN bools : bools[i]

\* Python's all() over a list of booleans
all(bools) == \A i \in DOMAIN bools : bools[i]

\* validate_all: the validator's report dict after the call and the returned
\* results, whose details entry is that same dict object.
ValidateAll(report, data, required_columns, expected_types, missing_threshold) ==
    LET report1       == IF required_columns # <<>>
                         THEN DictSet(report, "missing_columns",
                                      MissingColumns(data, required_columns))
                         ELSE report
        columns_valid == IF required_columns # <<>>
                         THEN MissingColumns(data, required_columns) = <<>>
                         ELSE TRUE
        problematic   == HighMissingColumns(data, missing_threshold)
        report2       == DictSet(report1, "high_missing_columns", problematic)
        missing_valid == Len(problematic) = 0
        report3       == IF expected_types # EmptyDict
                         THEN DictSet(report2, "type_mismatches",
                                      TypeMismatches(data, expected_types))
                         ELSE report2
        types_valid   == IF expected_types # EmptyDict
                         THEN TypeMismatches(data, expected_types) = EmptyDict
                         ELSE TRUE
    IN  [columns_valid |-> columns_valid,
         missing_valid |-> missing_valid,
         types_valid   |-> types_valid,
         overall_valid |-> all(<<columns_valid, missing_valid, types_valid>>),
         details       |-> report3]

validate_data_types ==
    \E expected_types \in AllExpected :
        LET type_mismatches == TypeMismatches(v_data, expected_types)
        IN  /\ validation_report' =
                   DictSet(validation_report, "type_mismatches", type_mismatches)
            /\ v_call' = [op |-> "validate_data_types", required |-> <<>>,
                          threshold |-> Ratio(0, 0),
                          ret |-> (type_mismatches = EmptyDict),
                          expected |-> expected_types]
            /\ UNCHANGED <<disk, v_data, serveVars, pipeVars,
                         trainVars, cfgVars, evalVars, prepVars>>

validate_all ==
    \E required_columns \in AllRequired, expected_types \in AllExpected,
       missing_threshold \in AllThresholds :
        LET results == ValidateAll(validation_report, v_data, required_columns,
                                   expected_types, missing_threshold)
        IN  /\ validation_report' = results.details
            /\ v_call' = [op |-> "validate_all", required |-> required_columns,
                          threshold |-> missing_threshold,
                          ret |-> results.overall_valid,
                          expected |-> expected_types,
                          results |-> results]
            /\ UNCHANGED <<disk, v_data, serveVars, pipeVars,
                         trainVars, cfgVars, evalVars, prepVars>>

NextValidateAll ==
    \/ validate_data_types
    \/ validate_all

\* The validated dataset is empty or has MaxRows rows.
InitValidateAll ==
    /\ InitValidation
    /\ v_data.nrows \in {0, MaxRows}

SpecValidateAll == InitValidateAll /\ [][NextValidateAll]_vars

-----------------------------------------------------------------------------
(* Calls on ModelTrainer objects (src/models/train.py) *)

TrainerIds == {1, 2}

\* Model-type names passed to train
TrainNames == {"random_forest", UnknownModelName}

\* File names passed to save_model and load_model
TrainerFiles == {ModelFile("random_forest")}

\* Inputs of predict and predict_proba: 0..MaxBatch well-formed rows, or one
\* row that is too short.
PredictRows ==
    {[i \in 1..n |-> [len |-> NumFeatures, elems |-> "number",
                      key |-> ((i - 1) % MaxKeys) + 1]] : n \in 0..MaxBatch}
        \cup {<<[len |-> NumFeatures - 1, elems |-> "number", key |-> 1]>>}

\* An exception other than get_model's, or "None" for a normal return
Exception(type) == [type |-> type, unknown |-> "", available |-> <<>>]

NoModelLoaded == Exception("ValueError: No model loaded. Train or load a model first!")

\* Variant without the check of self.model.
TrainerPredictErrorUnchecked(trainer, rows) ==
    IF trainer.model = NoModel
    THEN Exception("AttributeError: 'NoneType' object has no attribute 'predict'")
    ELSE IF EstimatorPredict(trainer.model, rows).raised
    THEN Exception("raised by the estimator")
    ELSE Exception("None")

\* The exception ModelTrainer.predict and predict_proba end with, if any
TrainerPredictError(trainer, rows) ==
    IF trainer.model = NoModel
    THEN NoModelLoaded
    ELSE IF EstimatorPredict(trainer.model, rows).raised
    THEN Exception("raised by the estimator")
    ELSE Exception("None")

\* ModelTrainer.predict_proba: one probability vector per row, whose largest
\* entry is at the predicted class.
TrainerPredictProba(trainer, rows) ==
    LET predicted == TrainerPredict(trainer, rows)
    IN  IF trainer.model # NoModel /\ ~HasPredictProba(trainer.model)
        THEN [raised |-> TRUE, value |-> <<>>]
        ELSE [raised |-> predicted.raised,
              value  |-> [i \in 1..Len(predicted.value) |->
                             [c \in CoverTypes |-> IF c = predicted.value[i] THEN 1 ELSE 0]]]

\* A ModelTrainer object and the outcome of the last train or load_model call
\* made on it.
TrainerObject(obj, last) == [obj |-> obj, last |-> last]

NotSaved == [saved |-> FALSE, who |-> 0, path |-> ""]

\* A call on trainer `who`; follows_save says whether the call made just
\* before it was a save_model that returned, by which trainer and to where.
TrainerCall(op, who, arg, before, raised, error, value) ==
    [op |-> op, who |-> who, arg |-> arg, before |-> before, raised |-> raised,
     error |-> error, value |-> value,
     follows_save |-> IF t_call.op = "save_model" /\ ~t_call.raised
                      THEN [saved |-> TRUE, who |-> t_call.who, path |-> t_call.value]
                      ELSE NotSaved]

NoTrainerCall ==
    [op |-> "none", who |-> 0, arg |-> "", before |-> TrainerObject(NewTrainer, "none"),
     raised |-> FALSE, error |-> Exception("None"), value |-> <<>>,
     follows_save |-> NotSaved]

\* trainer = ModelTrainer(...)
trainer_new(i) ==
    /\ trainers' = [trainers EXCEPT ![i] = TrainerObject(NewTrainer, "none")]
    /\ t_call' = TrainerCall("__init__", i, "", trainers[i], FALSE, Exception("None"), <<>>)
    /\ UNCHANGED <<disk, serveVars, pipeVars, validVars, cfgVars, evalVars, prepVars>>

trainer_train(i) ==
    \E model_name \in TrainNames, fitOk \in BOOLEAN :
        LET out == TrainerTrain(trainers[i].obj, model_name, fitOk)
            got == TrainerGetModel(model_name)
        IN  /\ trainers' = [trainers EXCEPT
                               ![i] = TrainerObject(out.trainer,
                                                    IF out.raised THEN "raised" ELSE "ok")]
            /\ t_call' = TrainerCall("train", i, model_name, trainers[i], out.raised,
                                     IF got.raised THEN got.error
                                     ELSE IF out.raised
                                     THEN Exception("raised by the estimator")
                                     ELSE Exception("None"),
                                     <<>>)
            /\ UNCHANGED <<disk, serveVars, pipeVars, validVars, cfgVars, evalVars, prepVars>>

trainer_save_model(i) ==
    \E filename \in TrainerFiles :
        LET out == TrainerSaveModel(trainers[i].obj, filename)
        IN  /\ disk' = IF out.raised THEN disk ELSE [disk EXCEPT ![filename] = out.file]
            /\ t_call' = TrainerCall("save_model", i, filename, trainers[i], out.raised,
                                     IF out.raised
                                     THEN Exception("ValueError: No model to save")
                                     ELSE Exception("None"),
                                     out.path)
            /\ UNCHANGED <<trainers, serveVars, pipeVars, validVars, cfgVars, evalVars, prepVars>>

trainer_load_model(i) ==
    \E model_path \in TrainerFiles :
        LET out == TrainerLoadModel(trainers[i].obj, disk[model_path])
        IN  /\ trainers' = [trainers EXCEPT
                               ![i] = TrainerObject(out.trainer,
                                                    IF out.raised THEN "raised" ELSE "ok")]
            /\ t_call' = TrainerCall("load_model", i, model_path, trainers[i], out.raised,
                                     IF out.raised THEN Exception("raised by joblib.load")
                                     ELSE Exception("None"),
                                     <<>>)
            /\ UNCHANGED <<disk, serveVars, pipeVars, validVars, cfgVars, evalVars, prepVars>>

trainer_predict(i) ==
    \E X \in PredictRows :
        LET out == TrainerPredict(trainers[i].obj, X)
        IN  /\ t_call' = TrainerCall("predict", i, X, trainers[i], out.raised,
                                     TrainerPredictError(trainers[i].obj, X), out.value)
            /\ UNCHANGED <<disk, trainers, serveVars, pipeVars, validVars, cfgVars, evalVars, prepVars>>

trainer_predict_proba(i) ==
    \E X \in PredictRows :
        LET out == TrainerPredictProba(trainers[i].obj, X)
        IN  /\ t_call' = TrainerCall("predict_proba", i, X, trainers[i], out.raised,
                                     TrainerPredictError(trainers[i].obj, X), out.value)
            /\ UNCHANGED <<disk, trainers, serveVars, pipeVars, validVars, cfgVars, evalVars, prepVars>>

InitTrainer ==
    /\ disk \in {d \in Disks : \A p \in Paths \ TrainerFiles : d[p] = Absent}
    /\ trainers = [i \in TrainerIds |-> TrainerObject(NewTrainer, "none")]
    /\ t_call = NoTrainerCall
    /\ ServeIdle /\ PipeIdle /\ ValidIdle /\ CfgIdle /\ EvalIdle /\ PrepIdle

NextTrainer ==
    \/ \E i \in TrainerIds : trainer_new(i)
    \/ \E i \in TrainerIds : trainer_train(i)
    \/ \E i \in TrainerIds : trainer_save_model(i)
    \/ \E i \in TrainerIds : trainer_load_model(i)
    \/ \E i \in TrainerIds : trainer_predict(i)
    \/ \E i \in TrainerIds : trainer_predict_proba(i)

SpecTrainer == InitTrainer /\ [][NextTrainer]_vars

-----------------------------------------------------------------------------
(* src/utils/config.py: Config *)

\* Python values held in a configuration: None, a scalar, a dict (ordered
\* <<key, value>> pairs), or a reference to the dict that is the value of a
\* section of the class attribute DEFAULT_CONFIG.
NoneValue == [kind |-> "none", scalar |-> "", items |-> <<>>]

Scalar(x) == [kind |-> "scalar", scalar |-> x, items |-> <<>>]

DictValue(items) == [kind |-> "dict", scalar |-> "", items |-> items]

DefaultsRef(section) == [kind |-> "ref", scalar |-> section, items |-> <<>>]

\* The literal DEFAULT_CONFIG of the class body
BuiltInConfig ==
    << <<"data",    DictValue(<< <<"raw_path", Scalar("data/raw")>>,
                                 <<"processed_path", Scalar("data/processed")>>,
                                 <<"test_size", Scalar("0.2")>> >>)>>,
       <<"model",   DictValue(<< <<"type", Scalar("random_forest")>>,
                                 <<"random_state", Scalar("42")>>,
                                 <<"n_estimators", Scalar("100")>> >>)>>,
       <<"api",     DictValue(<< <<"host", Scalar("0.0.0.0")>>,
                                 <<"port", Scalar("8000")>> >>)>>,
       <<"logging", DictValue(<< <<"level", Scalar("INFO")>> >>)>> >>

\* env_mapping of _load_from_env, in its order
env_mapping ==
    << <<"MODEL_TYPE", <<"model", "type">> >>,
       <<"MODEL_PATH", <<"model", "path">> >>,
       <<"API_HOST",   <<"api", "host">> >>,
       <<"API_PORT",   <<"api", "port">> >>,
       <<"LOG_LEVEL",  <<"logging", "level">> >>,
       <<"TEST_SIZE",  <<"data", "test_size">> >> >>

\* os.getenv on an environment given as a set of <<name, value>> pairs
HasEnv(env, name) == \E e \in env : e[1] = name

GetEnv(env, name) == (CHOOSE e \in env : e[1] = name)[2]

\* The dict a value of self.config denotes
Deref(value, defaults) ==
    IF value.kind = "ref" THEN DictGet(defaults, value.scalar) ELSE value

\* self.DEFAULT_CONFIG.copy(): a new top-level dict whose values are the
\* section dicts of the class attribute themselves.
ShallowCopy(defaults) == [i \in 1..Len(defaults) |-> <<defaults[i][1], DefaultsRef(defaults[i][1])>>]

RECURSIVE DeepUpdateItems(_, _)
\* _deep_update on a dict that is not shared
DeepUpdateItems(base, update) ==
    IF update = <<>>
    THEN base
    ELSE LET key    == Head(update)[1]
             value  == Head(update)[2]
             merged == IF /\ DictHas(base, key)
                          /\ DictGet(base, key).kind = "dict"
                          /\ value.kind = "dict"
                       THEN DictSet(base, key,
                                    DictValue(DeepUpdateItems(DictGet(base, key).items,
                                                              value.items)))
                       ELSE DictSet(base, key, value)
         IN  DeepUpdateItems(merged, Tail(update))

RECURSIVE deep_update(_, _)
\* _deep_update(self.config, update): s.config is the top-level dict and
\* s.defaults the class attribute, whose section dicts it may refer to.
deep_update(s, update) ==
    IF update = <<>>
    THEN s
    ELSE LET key   == Head(update)[1]
             value == Head(update)[2]
             has   == DictHas(s.config, key)
             cur   == DictGet(s.config, key)
             next  ==
                 IF has /\ cur.kind = "ref" /\ value.kind = "dict"
                 THEN [s EXCEPT !.defaults =
                          DictSet(s.defaults, key,
                                  DictValue(DeepUpdateItems(DictGet(s.defaults, key).items,
                                                            value.items)))]
                 ELSE IF has /\ cur.kind = "dict" /\ value.kind = "dict"
                 THEN [s EXCEPT !.config =
                          DictSet(s.config, key,
                                  DictValue(DeepUpdateItems(cur.items, value.items)))]
                 ELSE [s EXCEPT !.config = DictSet(s.config, key, value)]
         IN  deep_update(next, Tail(update))

\* _load_from_file: a file yaml cannot parse, and a document that is not a
\* mapping (no .items), raise inside the try; an empty document is falsy.
load_from_file(s, file) ==
    IF file.kind = "parsed" /\ file.content.kind = "dict" /\ file.content.items # <<>>
    THEN deep_update(s, file.content.items)
    ELSE s

\* _set_nested for a path of two keys; raises TypeError when the section is
\* not a dict.
set_nested(s, path, value) ==
    LET config == IF DictHas(s.config, path[1])
                  THEN s.config
                  ELSE DictSet(s.config, path[1], DictValue(<<>>))
        target == DictGet(config, path[1])
    IN  IF target.kind = "ref"
        THEN [s EXCEPT !.config = config,
                       !.defaults =
                           DictSet(s.defaults, path[1],
                                   DictValue(DictSet(DictGet(s.defaults, path[1]).items,
                                                     path[2], Scalar(value))))]
        ELSE IF target.kind = "dict"
        THEN [s EXCEPT !.config =
                 DictSet(config, path[1],
                         DictValue(DictSet(target.items, path[2], Scalar(value))))]
        ELSE [s EXCEPT !.config = config, !.raised = TRUE]

RECURSIVE load_from_env(_, _, _)
\* _load_from_env: the loop over env_mapping from entry i on
load_from_env(s, env, i) ==
    IF i > Len(env_mapping) \/ s.raised
    THEN s
    ELSE IF HasEnv(env, env_mapping[i][1])
    THEN load_from_env(set_nested(s, env_mapping[i][2], GetEnv(env, env_mapping[i][1])),
                       env, i + 1)
    ELSE load_from_env(s, env, i + 1)

\* Config.__init__
ConfigInit(defaults, file, env) ==
    LET copied == [raised |-> FALSE, config |-> ShallowCopy(defaults), defaults |-> defaults]
        loaded == IF file.kind # "absent" THEN load_from_file(copied, file) ELSE copied
    IN  load_from_env(loaded, env, 1)

RECURSIVE GetWalk(_, _, _, _)
GetWalk(result, keys, default, defaults) ==
    IF keys = <<>>
    THEN IF result.kind # "none" THEN result ELSE default
    ELSE IF result.kind = "dict"
    THEN GetWalk(IF DictHas(result.items, Head(keys))
                 THEN Deref(DictGet(result.items, Head(keys)), defaults)
                 ELSE NoneValue,
                 Tail(keys), default, defaults)
    ELSE default

\* Config.get(*keys, default=default)
ConfigGet(config, defaults, keys, default) ==
    GetWalk(DictValue(config), keys, default, defaults)

\* What the configuration file holds
ConfigFiles ==
    { [kind |-> "absent",    content |-> NoneValue],
      [kind |-> "malformed", content |-> NoneValue],
      [kind |-> "parsed",    content |-> Scalar("hello")],
      [kind |-> "parsed",
       content |-> DictValue(<< <<"model", DictValue(<< <<"type", Scalar("decision_tree")>> >>)>> >>)],
      [kind |-> "parsed",
       content |-> DictValue(<< <<"model", Scalar("decision_tree")>> >>)] }

\* Values of the mapped environment variables
Environments == {{}, {<<"MODEL_TYPE", "gradient_boosting">>}, {<<"MODEL_PATH", "m.pkl">>}}

\* Key paths and caller defaults passed to get
KeyPaths ==
    { <<"model", "type">>, <<"model", "path">>, <<"logging", "level">>, <<"model">>,
      <<"model", "type", "name">> }

CallerDefaults == {NoneValue, Scalar("fallback")}

\* The file or the environment changes
cfg_environment ==
    /\ c_file' \in ConfigFiles
    /\ c_env' \in Environments
    /\ <<c_file', c_env'>> # <<c_file, c_env>>
    /\ c_call' = [op |-> "none"]
    /\ UNCHANGED <<DEFAULT_CONFIG, c_config, disk, serveVars, pipeVars, validVars, trainVars, evalVars, prepVars>>

\* config = Config()
cfg_init ==
    LET out == ConfigInit(DEFAULT_CONFIG, c_file, c_env)
    IN  /\ DEFAULT_CONFIG' = out.defaults
        /\ c_config' = [constructed |-> TRUE, raised |-> out.raised, config |-> out.config,
                        file |-> c_file, env |-> c_env]
        /\ c_call' = [op |-> "__init__"]
        /\ UNCHANGED <<c_file, c_env, disk, serveVars, pipeVars, validVars, trainVars, evalVars, prepVars>>

cfg_get ==
    /\ c_config.constructed
    /\ ~c_config.raised
    /\ \E keys \in KeyPaths, default \in CallerDefaults :
          c_call' = [op |-> "get", keys |-> keys, default |-> default,
                     value |-> ConfigGet(c_config.config, DEFAULT_CONFIG, keys, default)]
    /\ UNCHANGED <<DEFAULT_CONFIG, c_file, c_env, c_config, disk, serveVars, pipeVars, validVars, trainVars, evalVars, prepVars>>

InitConfig ==
    /\ disk = [p \in Paths |-> Absent]
    /\ DEFAULT_CONFIG = BuiltInConfig
    /\ c_file \in ConfigFiles
    /\ c_env \in Environments
    /\ c_config = [constructed |-> FALSE]
    /\ c_call = [op |-> "none"]
    /\ ServeIdle /\ PipeIdle /\ ValidIdle /\ TrainIdle /\ EvalIdle /\ PrepIdle

NextConfig ==
    \/ cfg_environment
    \/ cfg_init
    \/ cfg_get

SpecConfig == InitConfig /\ [][NextConfig]_vars

-----------------------------------------------------------------------------
(* src/models/evaluate.py: ModelEvaluator.evaluate *)

\* JSON values of the metrics dict
FloatValue == [kind |-> "float", n |-> 0]

NullValue == [kind |-> "null", n |-> 0]

IntValue(n) == [kind |-> "int", n |-> n]

\* The model handed to evaluate: whether predict returns, whether the model
\* has a predict_proba attribute, whether calling it returns, and whether
\* roc_auc_score accepts what it returned.
EvalModels ==
    { [predict_ok |-> TRUE,  has_proba |-> TRUE,  proba_ok |-> TRUE,  score_ok |-> TRUE],
      [predict_ok |-> TRUE,  has_proba |-> TRUE,  proba_ok |-> TRUE,  score_ok |-> FALSE],
      [predict_ok |-> TRUE,  has_proba |-> TRUE,  proba_ok |-> FALSE, score_ok |-> FALSE],
      [predict_ok |-> TRUE,  has_proba |-> FALSE, proba_ok |-> FALSE, score_ok |-> FALSE],
      [predict_ok |-> FALSE, has_proba |-> TRUE,  proba_ok |-> FALSE, score_ok |-> FALSE] }

\* len(np.unique(y_true)) of the test labels
EvalClasses == {2, 7}

EvalNames == {"random_forest", "decision_tree"}

TestSamples == 4

\* evaluate: y_proba is not None
GotProba(model) == model.has_proba /\ model.proba_ok

\* calculate_metrics
calculate_metrics(n_classes, got_proba, score_ok) ==
    LET is_binary == n_classes = 2
        metrics   == << <<"accuracy", FloatValue>>, <<"precision", FloatValue>>, <<"recall", FloatValue>>,
                        <<"f1_score", FloatValue>>, <<"confusion_matrix", IntValue(n_classes)>>,
                        <<"n_classes", IntValue(n_classes)>>,
                        <<"samples_evaluated", IntValue(TestSamples)>> >>
    IN  IF is_binary /\ got_proba
        THEN DictSet(metrics, "roc_auc", IF score_ok THEN FloatValue ELSE NullValue)
        ELSE metrics

\* generate_report
generate_report(metrics, model_name, now) ==
    [model_name |-> model_name, timestamp |-> now, metrics |-> metrics]

\* The file name save_report derives from the clock: strftime("%Y%m%d_%H%M%S")
\* has a resolution of one second.
ReportFilename(now) == <<"evaluation_report", now>>

\* save_report: open(report_path, 'w') replaces a file of the same name
save_report(dir, report, now) == DictSet(dir, ReportFilename(now), report)

evaluate ==
    /\ e_calls < MaxEvals
    /\ \E model \in EvalModels, n_classes \in EvalClasses, model_name \in EvalNames :
          IF ~model.predict_ok
          THEN /\ e_call' = [op |-> "evaluate", model |-> model, n_classes |-> n_classes,
                             raised |-> TRUE, report |-> generate_report(<<>>, "", 0)]
               /\ UNCHANGED <<e_dir, e_calls>>
          ELSE LET metrics == calculate_metrics(n_classes, GotProba(model), model.score_ok)
                   report  == generate_report(metrics, model_name, e_clock)
               IN  /\ e_dir' = save_report(e_dir, report, e_clock)
                   /\ e_calls' = e_calls + 1
                   /\ e_call' = [op |-> "evaluate", model |-> model, n_classes |-> n_classes,
                                 raised |-> FALSE, report |-> report]
    /\ UNCHANGED <<e_clock, disk, serveVars, pipeVars, validVars, trainVars, cfgVars, prepVars>>

\* A second of wall-clock time passes between two calls
eval_tick ==
    /\ e_clock < MaxClock
    /\ e_clock' = e_clock + 1
    /\ UNCHANGED <<e_dir, e_calls, e_call, disk, serveVars, pipeVars, validVars, trainVars, cfgVars, prepVars>>

InitEvaluate ==
    /\ disk = [p \in Paths |-> Absent]
    /\ e_dir = EmptyDict
    /\ e_clock = 0
    /\ e_calls = 0
    /\ e_call = [op |-> "none"]
    /\ ServeIdle /\ PipeIdle /\ ValidIdle /\ TrainIdle /\ CfgIdle /\ PrepIdle

NextEvaluate ==
    \/ evaluate
    \/ eval_tick

SpecEvaluate == InitEvaluate /\ [][NextEvaluate]_vars

-----------------------------------------------------------------------------
(* src/data/preprocessing.py: DataPreprocessing.handle_missing_values *)

\* Cells of a table: NaN/None, a number, or a string
NullCell == [null |-> TRUE, num |-> Ratio(0, 0), str |-> ""]

NumCell(n) == [null |-> FALSE, num |-> Ratio(n, 1), str |-> ""]

FloatCell(x) == [null |-> FALSE, num |-> x, str |-> ""]

StrCell(s) == [null |-> FALSE, num |-> Ratio(0, 0), str |-> s]

\* String values in sort order
CatOrder == <<"a", "b">>

\* Column dtypes: select_dtypes(include=[np.number]) takes "float64",
\* select_dtypes(include=['object']) takes "object", neither takes "category".
CellsOf(dtype) ==
    CASE dtype = "float64"  -> {NullCell, NumCell(1), NumCell(4)}
      [] dtype = "object"   -> {NullCell} \cup {StrCell(CatOrder[i]) : i \in 1..Len(CatOrder)}
      [] dtype = "category" -> {NullCell, StrCell(CatOrder[1])}

DTypes == {"float64", "object", "category"}

ColumnsOf(n) ==
    UNION { {[dtype |-> t, cells |-> c] : c \in [1..n -> CellsOf(t)]} : t \in DTypes }

\* Tables of one or two columns
ColumnCounts == {1, 2}

Tables ==
    UNION { UNION { {[nrows |-> n, cols |-> cs] : cs \in [1..k -> ColumnsOf(n)]} :
                    k \in ColumnCounts } :
            n \in 0..MaxRows }

\* data.select_dtypes(...).columns: positions of the columns of a dtype
SelectDTypes(data, dtype) == {j \in 1..Len(data.cols) : data.cols[j].dtype = dtype}

AllNull(col) == \A i \in 1..Len(col.cells) : col.cells[i].null

RECURSIVE SumOf(_, _)
SumOf(cells, n) ==
    IF n = 0 THEN 0
    ELSE SumOf(cells, n - 1) + (IF cells[n].null THEN 0 ELSE cells[n].num.num)

CountOf(cells, v) == Cardinality({i \in 1..Len(cells) : cells[i] = v})

\* SimpleImputer(strategy='mean').statistics_ of a column with a value
Mean(col) ==
    FloatCell(Ratio(SumOf(col.cells, Len(col.cells)),
                    Cardinality({i \in 1..Len(col.cells) : ~col.cells[i].null})))

\* SimpleImputer(strategy='most_frequent').statistics_ of a column with a
\* value: the most frequent one, the smallest on a tie
MostFrequent(col) ==
    LET count(i) == CountOf(col.cells, StrCell(CatOrder[i]))
        best     == CHOOSE i \in 1..Len(CatOrder) :
                        /\ \A j \in 1..Len(CatOrder) : count(j) <= count(i)
                        /\ \A j \in 1..(i - 1) : count(j) < count(i)
    IN  StrCell(CatOrder[best])

Fill(col, statistic) ==
    [col EXCEPT !.cells = [i \in 1..Len(col.cells) |->
                              IF col.cells[i].null THEN statistic ELSE col.cells[i]]]

\* data[cols] = SimpleImputer(...).fit_transform(data[cols]): fit rejects a
\* table without rows; transform leaves out the columns that had no value at
\* fit, and the assignment of fewer columns than keys raises.
Impute(data, selected, mean) ==
    IF selected = {}
    THEN [raised |-> FALSE, data |-> data]
    ELSE IF data.nrows = 0 \/ \E j \in selected : AllNull(data.cols[j])
    THEN [raised |-> TRUE, data |-> data]
    ELSE [raised |-> FALSE,
          data |-> [data EXCEPT !.cols =
                       [j \in 1..Len(data.cols) |->
                           IF j \in selected
                           THEN Fill(data.cols[j],
                                     IF mean THEN Mean(data.cols[j])
                                     ELSE MostFrequent(data.cols[j]))
                           ELSE data.cols[j]]]]

\* handle_missing_values with the default strategies, on a copy of data
HandleMissingValues(data) ==
    LET numerical == Impute(data, SelectDTypes(data, "float64"), TRUE)
    IN  IF numerical.raised
        THEN numerical
        ELSE Impute(numerical.data, SelectDTypes(numerical.data, "object"), FALSE)

handle_missing_values ==
    /\ h_result.op = "none"
    /\ LET out == HandleMissingValues(h_data)
       IN  h_result' = [op |-> "handle_missing_values", raised |-> out.raised,
                        data |-> out.data]
    /\ UNCHANGED <<h_data, ppVars, disk, serveVars, pipeVars, validVars, trainVars,
                   cfgVars, evalVars>>

InitPrep ==
    /\ disk = [p \in Paths |-> Absent]
    /\ h_data \in Tables
    /\ h_result = [op |-> "none"]
    /\ PreprocessIdle
    /\ ServeIdle /\ PipeIdle /\ ValidIdle /\ TrainIdle /\ CfgIdle /\ EvalIdle

NextPrep == handle_missing_values

SpecPrep == InitPrep /\ [][NextPrep]_vars

-----------------------------------------------------------------------------
(* src/data/preprocessing.py: DataPreprocessing.encode_categorical *)

\* The strings of the model in the order Python sorts them (by code point)
StrOrder == <<"1", "1.0", "4.0", "a", "b", "nan">>

Rank(s) == CHOOSE k \in 1..Len(StrOrder) : StrOrder[k] = s

\* str(value), as Series.astype(str) applies it to each cell: a string is
\* kept, NaN gives 'nan', an int of an object column gives its digits and a
\* float of a float64 column its digits with '.0'.
StrOf(cell, dtype) ==
    IF cell.null THEN "nan"
    ELSE IF cell.str # "" THEN cell.str
    ELSE IF dtype = "float64" THEN (IF cell.num.num = 1 THEN "1.0" ELSE "4.0")
    ELSE "1"

\* LabelEncoder().fit(values): classes_ holds the distinct values, sorted
LabelFit(values) ==
    LET distinct == {values[i] : i \in 1..Len(values)}
    IN  [classes_ |-> [k \in 1..Cardinality(distinct) |->
                          CHOOSE s \in distinct :
                              Cardinality({t \in distinct : Rank(t) < Rank(s)}) = k - 1]]

\* LabelEncoder.transform(values): the position of each value in classes_
LabelTransform(le, values) ==
    [i \in 1..Len(values) |->
        (CHOOSE k \in 1..Len(le.classes_) : le.classes_[k] = values[i]) - 1]

\* data.select_dtypes(include=['object']).columns.tolist()
ObjectColumns(data) ==
    LET IsObject(j) == data.cols[j].dtype = "object"
        selected    == SelectSeq([j \in 1..Len(data.cols) |-> j], IsObject)
    IN  [k \in 1..Len(selected) |-> data.names[selected[k]]]

ColumnIndex(data, col) == CHOOSE j \in 1..Len(data.names) : data.names[j] = col

HasColumn(data, col) == \E j \in 1..Len(data.names) : data.names[j] = col

\* le.fit_transform(values) written back to the column: integer codes
EncodedColumn(le, values) ==
    [dtype |-> "int64",
     cells |-> [i \in 1..Len(values) |-> NumCell(LabelTransform(le, values)[i])]]

\* The loop of encode_categorical from its k-th column on
RECURSIVE EncodeLoop(_, _, _, _)
EncodeLoop(data, label_encoders, columns, k) ==
    IF k > Len(columns)
    THEN [data |-> data, label_encoders |-> label_encoders]
    ELSE IF ~HasColumn(data, columns[k])
    THEN EncodeLoop(data, label_encoders, columns, k + 1)
    ELSE LET j      == ColumnIndex(data, columns[k])
             values == [i \in 1..data.nrows |->
                           StrOf(data.cols[j].cells[i], data.cols[j].dtype)]
             le     == LabelFit(values)
         IN  EncodeLoop([data EXCEPT !.cols[j] = EncodedColumn(le, values)],
                        DictSet(label_encoders, columns[k], le), columns, k + 1)

\* encode_categorical(data, columns) on an object whose encoders are
\* label_encoders: the returned copy of data and self.label_encoders after it
EncodeCategorical(label_encoders, data, columns) ==
    EncodeLoop(data, label_encoders,
               IF columns.given THEN columns.list ELSE ObjectColumns(data), 1)

\* Cells of the tables handed to encode_categorical: an object column can
\* hold strings and Python ints side by side
EncodeCellsOf(dtype) ==
    IF dtype = "object"
    THEN {StrCell("a"), StrCell("b"), StrCell("1"), NumCell(1)}
    ELSE {NumCell(1), NumCell(4)}

EncodeNames == {<<"cat">>, <<"cat", "x">>}

EncodeDType(col) == IF col = "x" THEN "float64" ELSE "object"

ColumnsOfCells(n, dtype) ==
    {[dtype |-> dtype, cells |-> c] : c \in [1..n -> EncodeCellsOf(dtype)]}

EncodeTables ==
    UNION { UNION { {[nrows |-> n, names |-> names, cols |-> cs] :
                       cs \in {c \in [1..Len(names) ->
                                        ColumnsOfCells(n, "object")
                                        \cup ColumnsOfCells(n, "float64")] :
                                 \A j \in 1..Len(names) :
                                     c[j].dtype = EncodeDType(names[j])}} :
                    names \in EncodeNames } :
            n \in 0..MaxRows }

\* The argument columns: None, or a list of names
EncodeColumns ==
    {[given |-> FALSE, list |-> <<>>], [given |-> TRUE, list |-> <<"cat">>],
     [given |-> TRUE, list |-> <<"x", "gone">>]}

encode_categorical ==
    /\ h_result.op = "none"
    /\ \E columns \in EncodeColumns :
         LET out == EncodeCategorical(EmptyDict, h_data, columns)
         IN  h_result' = [op |-> "encode_categorical", columns |-> columns,
                          data |-> out.data, label_encoders |-> out.label_encoders]
    /\ UNCHANGED <<h_data, ppVars, disk, serveVars, pipeVars, validVars, trainVars,
                   cfgVars, evalVars>>

InitEncode ==
    /\ disk = [p \in Paths |-> Absent]
    /\ h_data \in EncodeTables
    /\ h_result = [op |-> "none"]
    /\ PreprocessIdle
    /\ ServeIdle /\ PipeIdle /\ ValidIdle /\ TrainIdle /\ CfgIdle /\ EvalIdle

NextEncode == encode_categorical

SpecEncode == InitEncode /\ [][NextEncode]_vars

-----------------------------------------------------------------------------
(* src/data/preprocessing.py: DataPreprocessing.preprocess_pipeline *)

RECURSIVE SeqSum(_)
SeqSum(s) == IF s = <<>> THEN 0 ELSE Head(s) + SeqSum(Tail(s))

RECURSIVE SeqProduct(_)
SeqProduct(s) == IF s = <<>> THEN 1 ELSE Head(s) * SeqProduct(Tail(s))

\* The rows idx of a table, in that order
Rows(data, idx) ==
    [nrows |-> Len(idx), names |-> data.names,
     cols  |-> [j \in 1..Len(data.cols) |->
                   [dtype |-> data.cols[j].dtype,
                    cells |-> [k \in 1..Len(idx) |-> data.cols[j].cells[idx[k]]]]]]

\* data.drop(columns=[col])
Drop(data, col) ==
    LET Kept(j) == data.names[j] # col
        kept    == SelectSeq([j \in 1..Len(data.names) |-> j], Kept)
    IN  [nrows |-> data.nrows,
         names |-> [k \in 1..Len(kept) |-> data.names[kept[k]]],
         cols  |-> [k \in 1..Len(kept) |-> data.cols[kept[k]]]]

\* data[col] as a table of one column
Column(data, col) ==
    [nrows |-> data.nrows, names |-> <<col>>,
     cols  |-> <<data.cols[ColumnIndex(data, col)]>>]

\* ceil(test_size * n) with test_size = 0.2
NumTest(n) == (n + 4) \div 5

\* split_data: train_test_split(X, y, test_size=0.2, random_state=42) takes
\* the first NumTest(n) rows of a permutation as the test partition and the
\* rest as the training partition; it raises when a partition would be
\* empty.  perm is the permutation the seeded generator yields.
SplitData(data, target_column, perm) ==
    LET n     == data.nrows
        test  == [k \in 1..NumTest(n) |-> perm[k]]
        train == [k \in 1..(n - NumTest(n)) |-> perm[NumTest(n) + k]]
        X     == Drop(data, target_column)
        y     == Column(data, target_column)
    IN  IF n = 0 \/ n - NumTest(n) = 0
        THEN [raised |-> TRUE, split |-> pp_split]
        ELSE [raised |-> FALSE,
              split  |-> [X_train |-> Rows(X, train), X_test |-> Rows(X, test),
                          y_train |-> Rows(y, train), y_test |-> Rows(y, test)]]

IsNumeric(col) ==
    \A i \in 1..Len(col.cells) : ~col.cells[i].null /\ col.cells[i].str = ""

\* StandardScaler.fit on one column: mean_ and var_ of its values, exactly
ColumnStats(cells) ==
    LET n    == Len(cells)
        d    == SeqProduct([i \in 1..n |-> cells[i].num.den])
        p    == [i \in 1..n |-> cells[i].num.num * (d \div cells[i].num.den)]
        sum  == SeqSum(p)
        sqs  == SeqSum([i \in 1..n |-> p[i] * p[i]])
    IN  [mean |-> Ratio(sum, n * d), var |-> Ratio(n * sqs - sum * sum, n * n * d * d)]

\* StandardScaler().fit(X): the fitted state
ScalerFit(X) ==
    [fitted |-> TRUE, n_samples_seen_ |-> X.nrows,
     mean_ |-> [j \in 1..Len(X.cols) |-> ColumnStats(X.cols[j].cells).mean],
     var_  |-> [j \in 1..Len(X.cols) |-> ColumnStats(X.cols[j].cells).var]]

\* The value (x - mean) / sqrt(var), kept as its three parts
ScaledCell(cell, mean, var) ==
    [null |-> FALSE, num |-> cell.num, str |-> "", mean |-> mean, var |-> var]

\* Variant of transform that fits the scaler on the data it is given
\* before it scales them.
ScalerTransformRefit(scaler, X) ==
    LET fitted == ScalerFit(X)
    IN  [scaler |-> fitted,
         X |-> [X EXCEPT !.cols =
                   [j \in 1..Len(X.cols) |->
                       [dtype |-> "float64",
                        cells |-> [i \in 1..X.nrows |->
                                      ScaledCell(X.cols[j].cells[i], fitted.mean_[j],
                                                 fitted.var_[j])]]]]]

\* StandardScaler.transform(X): the scaler after the call and the scaled X
ScalerTransform(scaler, X) ==
    [scaler |-> scaler,
     X |-> [X EXCEPT !.cols =
               [j \in 1..Len(X.cols) |->
                   [dtype |-> "float64",
                    cells |-> [i \in 1..X.nrows |->
                                  ScaledCell(X.cols[j].cells[i], scaler.mean_[j],
                                             scaler.var_[j])]]]]]

\* Datasets handed to preprocess_pipeline: two named columns
PipelineNames == {<<"x", "label">>, <<"target", "label">>}

PipelineTargets == {"label", "target"}

PipelineColumns(n) ==
    UNION { {[dtype |-> t, cells |-> c] : c \in [1..n -> CellsOf(t)]} :
            t \in {"float64", "object"} }

PipelineTables ==
    UNION { UNION { {[nrows |-> n, names |-> names, cols |-> cs] :
                       cs \in [1..Len(names) -> PipelineColumns(n)]} :
                    names \in PipelineNames } :
            n \in 0..MaxRows }

PreprocessUnchanged ==
    UNCHANGED <<pp_target, h_data, h_result, disk, serveVars, pipeVars, validVars,
                trainVars, cfgVars, evalVars>>

\* Step 1 (line 137)
pp_handle_missing_values ==
    /\ pp_pc = "handle_missing_values"
    /\ LET out == HandleMissingValues(pp_data)
       IN  IF out.raised
           THEN pp_pc' = "raised" /\ UNCHANGED pp_data
           ELSE pp_pc' = "encode_categorical" /\ pp_data' = out.data
    /\ UNCHANGED <<pp_self, pp_split, pp_files>>
    /\ PreprocessUnchanged

\* Step 2 (lines 140-143)
pp_encode_categorical ==
    /\ pp_pc = "encode_categorical"
    /\ LET Feature(col)     == col # pp_target
           categorical_cols == SelectSeq(ObjectColumns(pp_data), Feature)
           out == EncodeCategorical(pp_self.label_encoders, pp_data,
                                    [given |-> TRUE, list |-> categorical_cols])
       IN  /\ pp_data' = out.data
           /\ pp_self' = [pp_self EXCEPT !.label_encoders = out.label_encoders]
    /\ pp_pc' = "encode_target"
    /\ UNCHANGED <<pp_split, pp_files>>
    /\ PreprocessUnchanged

\* Variant of step 3 that saves the transformers before it looks the target
\* column up.
pp_encode_target_after_saving ==
    /\ pp_pc = "encode_target"
    /\ pp_files' = DictSet(DictSet(pp_files, "scaler.pkl", pp_self.scaler),
                           "label_encoders.pkl", pp_self.label_encoders)
    /\ IF ~HasColumn(pp_data, pp_target)
       THEN pp_pc' = "raised" /\ UNCHANGED <<pp_data, pp_self>>
       ELSE LET j      == ColumnIndex(pp_data, pp_target)
                values == [i \in 1..pp_data.nrows |-> pp_data.cols[j].cells[i].str]
                le     == LabelFit(values)
            IN  /\ pp_pc' = "split_data"
                /\ IF pp_data.cols[j].dtype = "object"
                   THEN /\ pp_data' = [pp_data EXCEPT !.cols[j] = EncodedColumn(le, values)]
                        /\ pp_self' = [pp_self EXCEPT !.label_encoders =
                                          DictSet(pp_self.label_encoders, "target", le)]
                   ELSE UNCHANGED <<pp_data, pp_self>>
    /\ UNCHANGED pp_split
    /\ PreprocessUnchanged

\* Step 3 (lines 146-149): data[target_column] raises KeyError when the
\* column is absent
pp_encode_target ==
    /\ pp_pc = "encode_target"
    /\ IF ~HasColumn(pp_data, pp_target)
       THEN pp_pc' = "raised" /\ UNCHANGED <<pp_data, pp_self>>
       ELSE LET j      == ColumnIndex(pp_data, pp_target)
                values == [i \in 1..pp_data.nrows |-> pp_data.cols[j].cells[i].str]
                le     == LabelFit(values)
            IN  /\ pp_pc' = "split_data"
                /\ IF pp_data.cols[j].dtype = "object"
                   THEN /\ pp_data' = [pp_data EXCEPT !.cols[j] = EncodedColumn(le, values)]
                        /\ pp_self' = [pp_self EXCEPT !.label_encoders =
                                          DictSet(pp_self.label_encoders, "target", le)]
                   ELSE UNCHANGED <<pp_data, pp_self>>
    /\ UNCHANGED <<pp_split, pp_files>>
    /\ PreprocessUnchanged

\* Step 4 (line 152)
pp_split_data ==
    /\ pp_pc = "split_data"
    /\ \E perm \in Permutations(1..pp_data.nrows) :
         LET out == SplitData(pp_data, pp_target, perm)
         IN  IF out.raised
             THEN pp_pc' = "raised" /\ UNCHANGED pp_split
             ELSE pp_pc' = "fit_transform" /\ pp_split' = out.split
    /\ UNCHANGED <<pp_data, pp_self, pp_files>>
    /\ PreprocessUnchanged

\* Step 5, first statement (line 156): scaler.fit_transform(X_train)
pp_fit_transform ==
    /\ pp_pc = "fit_transform"
    /\ IF \E j \in 1..Len(pp_split.X_train.cols) : ~IsNumeric(pp_split.X_train.cols[j])
       THEN pp_pc' = "raised" /\ UNCHANGED <<pp_self, pp_split>>
       ELSE LET out == ScalerTransform(ScalerFit(pp_split.X_train), pp_split.X_train)
            IN  /\ pp_self' = [pp_self EXCEPT !.scaler = out.scaler]
                /\ pp_split' = [pp_split EXCEPT !.X_train = out.X]
                /\ pp_pc' = "transform"
    /\ UNCHANGED <<pp_data, pp_files>>
    /\ PreprocessUnchanged

\* Step 5, second statement (line 157): scaler.transform(X_test)
pp_transform ==
    /\ pp_pc = "transform"
    /\ IF \E j \in 1..Len(pp_split.X_test.cols) : ~IsNumeric(pp_split.X_test.cols[j])
       THEN pp_pc' = "raised" /\ UNCHANGED <<pp_self, pp_split>>
       ELSE LET out == ScalerTransform(pp_self.scaler, pp_split.X_test)
            IN  /\ pp_self' = [pp_self EXCEPT !.scaler = out.scaler]
                /\ pp_split' = [pp_split EXCEPT !.X_test = out.X]
                /\ pp_pc' = "save_preprocessors"
    /\ UNCHANGED <<pp_data, pp_files>>
    /\ PreprocessUnchanged

\* Variant of step 6 that runs right after the split, in place of step 5.
pp_save_preprocessors_before_scaling ==
    /\ pp_pc = "fit_transform"
    /\ pp_files' = DictSet(DictSet(pp_files, "scaler.pkl", pp_self.scaler),
                           "label_encoders.pkl", pp_self.label_encoders)
    /\ pp_pc' = "to_csv"
    /\ UNCHANGED <<pp_data, pp_self, pp_split>>
    /\ PreprocessUnchanged

\* Step 6 (line 160): save_preprocessors dumps the scaler and the encoders
pp_save_preprocessors ==
    /\ pp_pc = "save_preprocessors"
    /\ pp_files' = DictSet(DictSet(pp_files, "scaler.pkl", pp_self.scaler),
                           "label_encoders.pkl", pp_self.label_encoders)
    /\ pp_pc' = "to_csv"
    /\ UNCHANGED <<pp_data, pp_self, pp_split>>
    /\ PreprocessUnchanged

\* Step 7 (lines 163-166) and the return
pp_to_csv ==
    /\ pp_pc = "to_csv"
    /\ pp_files' = DictSet(DictSet(DictSet(DictSet(pp_files,
                       "X_train.csv", pp_split.X_train),
                       "X_test.csv", pp_split.X_test),
                       "y_train.csv", pp_split.y_train),
                       "y_test.csv", pp_split.y_test)
    /\ pp_pc' = "returned"
    /\ UNCHANGED <<pp_data, pp_self, pp_split>>
    /\ PreprocessUnchanged

InitPreprocess ==
    /\ disk = [p \in Paths |-> Absent]
    /\ pp_pc = "handle_missing_values"
    /\ pp_target \in PipelineTargets
    /\ pp_data \in PipelineTables
    /\ pp_self = [scaler |-> [fitted |-> FALSE], label_encoders |-> EmptyDict]
    /\ pp_split = [X_train |-> <<>>, X_test |-> <<>>, y_train |-> <<>>, y_test |-> <<>>]
    /\ pp_files = EmptyDict
    /\ h_data = [nrows |-> 0, cols |-> <<>>]
    /\ h_result = [op |-> "none"]
    /\ ServeIdle /\ PipeIdle /\ ValidIdle /\ TrainIdle /\ CfgIdle /\ EvalIdle

NextPreprocess ==
    \/ pp_handle_missing_values
    \/ pp_encode_categorical
    \/ pp_encode_target
    \/ pp_split_data
    \/ pp_fit_transform
    \/ pp_transform
    \/ pp_save_preprocessors
    \/ pp_to_csv

SpecPreprocess == InitPreprocess /\ [][NextPreprocess]_vars

-----------------------------------------------------------------------------
(* A pipeline run followed by a serving process in the same directory *)

\* The artifact an earlier run left at a path of artifacts/
EarlierRun(path) ==
    LET name == IF path = LegacyFile THEN "random_forest"
                ELSE CHOOSE n \in MODELS : ModelFile(n) = path
    IN  Pickle(Fitted(name, 1), InfoOf(Fitted(name, 1)))

\* artifacts/ before the run: empty, or holding the files of an earlier run
DeployDisks == {[p \in Paths |-> Absent], [p \in Paths |-> EarlierRun(p)]}

\* The server process is started (uvicorn) once run_pipeline has returned or
\* has ended with an exception.
ServerStart ==
    /\ p_pc \in {"done", "crashed"}
    /\ startup_pc = "idle"
    /\ startup_pc' = "init"
    /\ UNCHANGED <<disk, startup_i, local_models, loaded_models, attempted, response,
                   pipeVars, validVars, trainVars, cfgVars, evalVars, prepVars>>

InitDeploy ==
    /\ disk \in DeployDisks
    /\ p_pc = "start"
    /\ p_i = 0
    /\ trained_models = EmptyDict
    /\ all_reports = EmptyDict
    /\ p_failed = {}
    /\ p_result = [kind |-> "none", report |-> "None"]
    /\ ServeIdle
    /\ TrainIdle /\ CfgIdle /\ EvalIdle /\ PrepIdle
    /\ ValidIdle

NextDeploy ==
    \/ PipelinePrepare
    \/ PipelineTrain
    \/ PipelineSelect
    \/ PipelineEvaluate
    \/ PipelineFinish
    \/ ServerStart
    \/ StartupBegin
    \/ StartupLoad
    \/ StartupFinish
    \/ PostPredict

SpecDeploy == InitDeploy /\ [][NextDeploy]_vars

-----------------------------------------------------------------------------
(* Claims about the HTTP service (checked under Spec) *)

LastRequest == response.request

\* The model a /predict request selects: its model field, or the default
SelectedModel(req) == IF req.model # "None" THEN req.model ELSE default_model_name

Loaded(model_name) ==
    DictHas(loaded_models, model_name) /\ DictGet(loaded_models, model_name).model # NoModel

\* C1 (as claimed): with random_forest loaded, a batch of N well-formed
\* vectors is answered 200 with N predictions and count = N, identical
\* instances receiving identical predictions.
C1_BatchPredictsEveryInstance ==
    ( /\ response.endpoint = "predict_batch"
      /\ Loaded(default_model_name)
      /\ \A i \in 1..Len(LastRequest.instances) :
             LastRequest.instances[i] \in WellFormedVectors )
    => /\ response.status = 200
       /\ Len(response.body.predictions) = Len(LastRequest.instances)
       /\ response.body.count = Len(LastRequest.instances)
       /\ \A i, j \in 1..Len(LastRequest.instances) :
              LastRequest.instances[i] = LastRequest.instances[j]
              => response.body.predictions[i] = response.body.predictions[j]

\* C2 (as claimed): every /predict request naming a model that is not in the
\* registry is answered 503, the detail naming that model and listing the
\* registry's names, and no prediction is computed.
C2_AbsentModelIs503 ==
    ( /\ response.endpoint = "predict"
      /\ LastRequest.model # "None"
      /\ ~DictHas(loaded_models, LastRequest.model) )
    => /\ response.status = 503
       /\ response.body.detail.model = LastRequest.model
       /\ response.body.detail.available = DictKeys(loaded_models)
       /\ ~response.computed

\* C2 (amended): every /predict request that passes the request schema and
\* whose selected model is not in the registry is answered 503, the detail
\* naming the selected model and listing exactly the registry's names, and no
\* prediction is computed.
C2_ValidRequestAbsentModelIs503 ==
    ( /\ response.endpoint = "predict"
      /\ ValidPredictionRequest(LastRequest)
      /\ SelectedModel(LastRequest) \notin DictKeySet(loaded_models) )
    => /\ response.status = 503
       /\ response.body.detail.model = SelectedModel(LastRequest)
       /\ SeqToSet(response.body.detail.available) = DictKeySet(loaded_models)
       /\ Len(response.body.detail.available) = Cardinality(DictKeySet(loaded_models))
       /\ ~response.computed

C2_Witness ==
    /\ response.endpoint = "predict"
    /\ ValidPredictionRequest(LastRequest)
    /\ LastRequest.model = "decision_tree"
    /\ ~DictHas(loaded_models, "decision_tree")
    /\ DictHas(loaded_models, "random_forest")
    /\ response.status = 503

\* C3: a /predict request with a well-formed vector and a loaded model is
\* answered 200 with a prediction in 1..7 and the cover-type label of that
\* class.
C3_LoadedModelPredictsLabelledClass ==
    ( /\ response.endpoint = "predict"
      /\ LastRequest.features \in WellFormedVectors
      /\ LastRequest.model \in MODELS \cup {"None"}
      /\ Loaded(SelectedModel(LastRequest)) )
    => /\ response.status = 200
       /\ response.body.prediction \in 1..7
       /\ response.body.prediction_label # "None"
       /\ response.body.prediction_label = COVER_TYPE_LABELS[response.body.prediction]

C3_Witness ==
    /\ response.endpoint = "predict"
    /\ LastRequest.features \in WellFormedVectors
    /\ LastRequest.model = "logistic_regression"
    /\ Loaded("logistic_regression")
    /\ response.status = 200
    /\ response.body.prediction = 1

C5_ModelInfoMatchesRegistry ==
    response.endpoint = "model_info"
    => /\ response.status = 200
       /\ SeqToSet(response.body.available_models) = DictKeySet(loaded_models)
       /\ Len(response.body.available_models) = Cardinality(DictKeySet(loaded_models))
       /\ response.body.models_count = Cardinality(DictKeySet(loaded_models))
       /\ DictKeySet(response.body.models_info) = DictKeySet(loaded_models)
       /\ Len(response.body.models_info) = Cardinality(DictKeySet(loaded_models))
       /\ (loaded_models = EmptyDict =>
              /\ response.body.available_models = <<>>
              /\ response.body.models_count = 0
              /\ response.body.models_info = EmptyDict)

C5_Witness ==
    /\ response.endpoint = "model_info"
    /\ Len(loaded_models) = 3
    /\ ~DictHas(loaded_models, "random_forest")

\* C6 (as claimed, from tests/test_api.py): GET /model/info answers 200 with
\* a body that has the key model_loaded.
C6_ModelInfoHasModelLoaded ==
    response.endpoint = "model_info"
    => /\ response.status = 200
       /\ "model_loaded" \in DOMAIN response.body

\* The artifact load_models uses for a name exists and unpickles
ArtifactLoads(model_name) ==
    IF model_name = "random_forest"
    THEN \/ disk["model_random_forest.pkl"].kind = "pickle"
         \/ /\ disk["model_random_forest.pkl"].kind = "absent"
            /\ disk["model.pkl"].kind = "pickle"
    ELSE disk[ModelFile(model_name)].kind = "pickle"

\* C7: startup can always take its next step; a failure for one name does
\* not keep later names from being attempted; when startup is done the
\* registry holds exactly the names whose artifact existed and loaded.
C7_StartupToleratesFailures ==
    /\ (startup_pc = "loop" => ENABLED (StartupLoad \/ StartupFinish))
    /\ (startup_pc = "loop" =>
           attempted = {MODEL_NAMES[i] : i \in 1..(startup_i - 1)})
    /\ (startup_pc = "done" =>
           /\ attempted = MODELS
           /\ DictKeySet(loaded_models) = {n \in MODELS : ArtifactLoads(n)})

C7_Witness ==
    /\ startup_pc = "done"
    /\ disk["model_random_forest.pkl"].kind = "corrupt"
    /\ disk["model_logistic_regression.pkl"].kind = "absent"
    /\ DictKeys(loaded_models) = <<"decision_tree", "gradient_boosting">>

-----------------------------------------------------------------------------
(* Claims about the pipeline script (checked under SpecPipeline) *)

PipelineEnded == p_pc \in {"done", "crashed"}

\* C8 (as claimed): when training of one model type raises, every other type
\* is still trained and saved, and the run goes on to evaluation and
\* completes, reporting the models that succeeded.
C8_OneTrainingFailureIsIsolated ==
    (PipelineEnded /\ Cardinality(p_failed) = 1)
    => /\ p_pc = "done"
       /\ p_result.kind = "returned"
       /\ \A m \in MODELS \ p_failed :
              /\ DictHas(trained_models, m)
              /\ disk[ModelFile(m)].kind = "pickle"
              /\ disk[ModelFile(m)].model = Fitted(m, 0)
              /\ DictHas(all_reports, m)

-----------------------------------------------------------------------------
(* Claims about DataValidation (checked under SpecValidation) *)

ReportHas(key) == DictHas(validation_report, key)

\* C9: validate_columns returns false exactly when a required name is not a
\* column; missing_columns then lists exactly the absent required names, and
\* is empty when it returns true.
C9_ColumnsCheckListsAbsentNames ==
    v_call.op = "validate_columns"
    => /\ v_call.ret = (SeqToSet(v_call.required) \subseteq v_data.cols)
       /\ ReportHas("missing_columns")
       /\ SeqToSet(DictGet(validation_report, "missing_columns"))
              = SeqToSet(v_call.required) \ v_data.cols
       /\ (v_call.ret => DictGet(validation_report, "missing_columns") = <<>>)

C9_Witness ==
    /\ v_call.op = "validate_columns"
    /\ v_call.required = <<"missing", "a">>
    /\ v_data.cols = {"a"}
    /\ ~v_call.ret
    /\ DictGet(validation_report, "missing_columns") = <<"missing">>
    /\ ReportHas("high_missing_columns")

NullCount(col) == Cardinality({i \in 1..v_data.nrows : v_data.cells[col][i] = "null"})

\* null_count / row_count exceeds the threshold (never for an empty table)
ExceedsThreshold(col, threshold) ==
    /\ v_data.nrows > 0
    /\ NullCount(col) * threshold.den > threshold.num * v_data.nrows

\* C10: validate_missing_values returns false exactly when the null ratio of
\* some column exceeds the threshold; exactly those columns are in the report,
\* each with its ratio; a ratio at or below the threshold passes.
C10_MissingCheckListsColumnsOverThreshold ==
    v_call.op = "validate_missing_values"
    => LET reported == DictGet(validation_report, "high_missing_columns")
       IN  /\ ReportHas("high_missing_columns")
           /\ v_call.ret = ~(\E col \in v_data.cols : ExceedsThreshold(col, v_call.threshold))
           /\ DictKeySet(reported)
                  = {col \in v_data.cols : ExceedsThreshold(col, v_call.threshold)}
           /\ Len(reported) = Cardinality(DictKeySet(reported))
           /\ \A i \in 1..Len(reported) :
                  reported[i][2].num * v_data.nrows
                      = NullCount(reported[i][1]) * reported[i][2].den

C10_Witness ==
    /\ v_call.op = "validate_missing_values"
    /\ v_call.threshold = Ratio(1, 2)
    /\ v_data.nrows = 2
    /\ v_data.cols = {"a", "b"}
    /\ NullCount("a") = 1
    /\ NullCount("b") = 2
    /\ ~v_call.ret
    /\ DictGet(validation_report, "high_missing_columns") = << <<"b", Ratio(1, 1)>> >>

-----------------------------------------------------------------------------
(* Claims about validate_all (checked under SpecValidateAll) *)

\* C11: in every report of validate_all, overall_valid is the conjunction of
\* columns_valid, missing_valid and types_valid, and the column check and the
\* type check are reported as passing when required_columns or expected_types
\* was not supplied.
C11_OverallIsConjunction ==
    v_call.op = "validate_all"
    => /\ v_call.results.overall_valid
              = (/\ v_call.results.columns_valid
                 /\ v_call.results.missing_valid
                 /\ v_call.results.types_valid)
       /\ (v_call.required = <<>> => v_call.results.columns_valid)
       /\ (v_call.expected = EmptyDict => v_call.results.types_valid)
       /\ (v_call.required # <<>> =>
              v_call.results.columns_valid = (SeqToSet(v_call.required) \subseteq v_data.cols))
       /\ v_call.results.missing_valid
              = ~(\E col \in v_data.cols : ExceedsThreshold(col, v_call.threshold))

C11_Witness ==
    /\ v_call.op = "validate_all"
    /\ v_call.required = <<>>
    /\ v_call.expected = EmptyDict
    /\ v_call.results.columns_valid
    /\ v_call.results.types_valid
    /\ ~v_call.results.missing_valid
    /\ ~v_call.results.overall_valid

\* C12: the report validate_all returns, details included, depends on its
\* arguments only: after any sequence of earlier validation calls it equals
\* the report the same call returns on a validator that has made no call.
C12_ValidateAllIsPure ==
    v_call.op = "validate_all"
    => v_call.results = ValidateAll(EmptyDict, v_data, v_call.required, v_call.expected,
                                    v_call.threshold)

-----------------------------------------------------------------------------
(* Claims about ModelTrainer (checked under SpecTrainer) *)

\* C13: train called with a model-type name outside the four known types
\* fails with an error that names the four valid types, and fits no model:
\* the trainer's model is the one it had before the call.
C13_UnknownTypeFailsNamingTypes ==
    (t_call.op = "train" /\ t_call.arg \notin MODELS)
    => /\ t_call.raised
       /\ t_call.error.type = "ValueError"
       /\ t_call.error.unknown = t_call.arg
       /\ SeqToSet(t_call.error.available)
              = {"random_forest", "logistic_regression", "decision_tree",
                 "gradient_boosting"}
       /\ trainers[t_call.who].obj.model = t_call.before.obj.model
       /\ trainers[t_call.who].obj.training_info = t_call.before.obj.training_info

C13_Witness ==
    /\ t_call.op = "train"
    /\ t_call.arg = UnknownModelName
    /\ t_call.raised
    /\ t_call.before.obj.model = NoModel
    /\ trainers[t_call.who].obj.model = NoModel


WellFormedRows(X) == \A i \in 1..Len(X) : X[i].len = NumFeatures /\ X[i].elems = "number"

Restored == trainers[t_call.who].obj

Original == trainers[t_call.follows_save.who].obj

RoundTrip ==
    /\ t_call.op = "load_model"
    /\ t_call.before = TrainerObject(NewTrainer, "none")
    /\ t_call.follows_save.saved
    /\ t_call.follows_save.path = t_call.arg
    /\ t_call.follows_save.who # t_call.who
    /\ Original.model.fitted

\* C15: save_model of a trained trainer followed by load_model of the written
\* path on a fresh trainer restores the fitted model and the training
\* metadata, and predict gives the same predictions as the original trainer
\* on every input.
C15_SaveLoadRoundTrip ==
    RoundTrip
    => /\ ~t_call.raised
       /\ Restored.model = Original.model
       /\ Restored.training_info = Original.training_info
       /\ \A X \in PredictRows :
             /\ TrainerPredict(Restored, X) = TrainerPredict(Original, X)
             /\ TrainerPredictProba(Restored, X) = TrainerPredictProba(Original, X)

C15_Witness ==
    /\ RoundTrip
    /\ Restored.training_info = InfoOf(Fitted("random_forest", 0))
    /\ \E X \in PredictRows : /\ Len(X) = MaxBatch
                              /\ ~TrainerPredict(Restored, X).raised

-----------------------------------------------------------------------------
(* Claims about Config (checked under SpecConfig) *)

\* The environment override, file value and built-in default of a path of
\* two keys, for the file and environment the Config was constructed with.
EnvOverrides(path) ==
    \E i \in 1..Len(env_mapping) :
        env_mapping[i][2] = path /\ HasEnv(c_config.env, env_mapping[i][1])

EnvValue(path) ==
    Scalar(GetEnv(c_config.env,
                  env_mapping[CHOOSE i \in 1..Len(env_mapping) : env_mapping[i][2] = path][1]))

ValueAt(items, path) ==
    IF /\ DictHas(items, path[1])
       /\ DictGet(items, path[1]).kind = "dict"
       /\ DictHas(DictGet(items, path[1]).items, path[2])
    THEN DictGet(DictGet(items, path[1]).items, path[2])
    ELSE NoneValue

FileValue(path) ==
    IF c_config.file.kind = "parsed" /\ c_config.file.content.kind = "dict"
    THEN ValueAt(c_config.file.content.items, path)
    ELSE NoneValue

Layered(path, default) ==
    IF EnvOverrides(path) THEN EnvValue(path)
    ELSE IF FileValue(path) # NoneValue THEN FileValue(path)
    ELSE IF ValueAt(BuiltInConfig, path) # NoneValue THEN ValueAt(BuiltInConfig, path)
    ELSE default

\* C16: for every key path (section, key), get returns the environment
\* override if one is set for the path, otherwise the value loaded from the
\* file, otherwise the built-in default, otherwise the caller's default.
C16_GetFallsThroughLayers ==
    (c_call.op = "get" /\ Len(c_call.keys) = 2)
    => c_call.value = Layered(c_call.keys, c_call.default)

\* C17: constructing a Config never raises, and with a file that cannot be
\* loaded every setting has its built-in default or its environment
\* override.
C17_ConstructionNeverRaises ==
    c_config.constructed
    => /\ ~c_config.raised
       /\ c_config.file.kind = "malformed"
          => \A i \in 1..Len(env_mapping) :
                ConfigGet(c_config.config, DEFAULT_CONFIG, env_mapping[i][2], NoneValue)
                    = Layered(env_mapping[i][2], NoneValue)

-----------------------------------------------------------------------------
(* Claims about ModelEvaluator.evaluate (checked under SpecEvaluate) *)

Returned == e_call.op = "evaluate" /\ ~e_call.raised

Metrics == e_call.report.metrics

\* The optional step applies: two classes and a model with predict_proba
RocApplies == e_call.n_classes = 2 /\ e_call.model.has_proba

RocFailed == ~e_call.model.proba_ok \/ ~e_call.model.score_ok

\* C18: when evaluate returns, roc_auc holds a score exactly when the true
\* labels have two classes, the model has probability output and the step
\* did not fail; when the step fails, in obtaining the probabilities or in
\* computing the score, roc_auc is recorded as null; the other metrics are
\* reported either way.
C18_RocAucOptionalStep ==
    Returned
    => /\ (DictHas(Metrics, "roc_auc") /\ DictGet(Metrics, "roc_auc") = FloatValue)
             <=> (RocApplies /\ ~RocFailed)
       /\ (RocApplies /\ RocFailed)
             => (DictHas(Metrics, "roc_auc") /\ DictGet(Metrics, "roc_auc") = NullValue)
       /\ \A k \in {"accuracy", "precision", "recall", "f1_score", "confusion_matrix"} :
             DictHas(Metrics, k)

\* C19: the artifacts directory holds one persisted report per evaluate call
\* that has returned.
C19_OneReportPerEvaluate == Len(e_dir) = e_calls

-----------------------------------------------------------------------------
(* Claims about handle_missing_values (checked under SpecPrep) *)

NoNulls(data) ==
    \A j \in 1..Len(data.cols) : \A i \in 1..data.nrows : ~data.cols[j].cells[i].null

\* C20: for every input table handle_missing_values returns a table with no
\* null value in any column.  (The input table is a copy's original: the
\* action leaves h_data unchanged.)
C20_NoNullsAfterImputation ==
    h_result.op = "handle_missing_values"
    => /\ ~h_result.raised
       /\ NoNulls(h_result.data)

-----------------------------------------------------------------------------
(* Claims about encode_categorical (checked under SpecEncode) *)

\* The object columns encode_categorical encoded in its last call
EncodedObjectColumns ==
    {j \in 1..Len(h_data.cols) :
        /\ h_data.cols[j].dtype = "object"
        /\ DictHas(h_result.label_encoders, h_data.names[j])}

\* C21: a categorical column with K distinct values is encoded into exactly
\* K distinct integer codes: equal values receive equal codes and distinct
\* values receive distinct codes.
C21_EncodingIsInjective ==
    h_result.op = "encode_categorical"
    => \A j \in EncodedObjectColumns :
          LET before == h_data.cols[j].cells
              after  == h_result.data.cols[j].cells
          IN  /\ Cardinality({after[i] : i \in 1..h_data.nrows})
                 = Cardinality({before[i] : i \in 1..h_data.nrows})
              /\ \A i1, i2 \in 1..h_data.nrows :
                     (before[i1] = before[i2]) <=> (after[i1] = after[i2])

-----------------------------------------------------------------------------
(* Claims about the registry of the HTTP service (checked under Spec) *)

\* load_models can load the artifact of a name from the disk
Loadable(model_name) ==
    /\ PathExists(disk, ModelPath(disk, model_name))
    /\ ~TrainerLoadModel(NewTrainer, disk[ModelPath(disk, model_name)]).raised

\* models is the complete mapping: every loadable name, in the order of
\* MODEL_NAMES, with the trainer loaded from its artifact
CompleteMapping(models) ==
    /\ DictKeys(models) = SelectSeq(MODEL_NAMES, Loadable)
    /\ \A i \in 1..Len(models) :
           models[i][2] = TrainerLoadModel(NewTrainer,
                                           disk[ModelPath(disk, models[i][1])]).trainer

\* C22: the registry is written by one assignment of the complete mapping
\* at the end of startup and by nothing else; no request handler changes
\* it, and every request sees the empty registry or the complete mapping.
C22_RegistryAssignedOnce ==
    /\ [](loaded_models = EmptyDict \/ CompleteMapping(loaded_models))
    /\ [][loaded_models' # loaded_models
          => /\ startup_pc = "loop" /\ startup_pc' = "done"
             /\ loaded_models = EmptyDict]_vars
    /\ [][response' # response => loaded_models' = loaded_models]_vars
    /\ [](response.endpoint = "model_info"
          => \/ response.body.available_models = <<>>
             \/ response.body.available_models = SelectSeq(MODEL_NAMES, Loadable))

C22_Witness ==
    /\ startup_pc = "done"
    /\ Len(loaded_models) >= 2
    /\ Len(loaded_models) < Len(MODEL_NAMES)
    /\ response.endpoint = "model_info"
    /\ response.body.available_models = DictKeys(loaded_models)

-----------------------------------------------------------------------------
(* Claims about preprocess_pipeline (checked under SpecPreprocess) *)

NoNullCells(data) ==
    \A j \in 1..Len(data.cols) : \A i \in 1..data.nrows : ~data.cols[j].cells[i].null

\* The target column holds the codes of step 3
TargetEncoded ==
    /\ HasColumn(pp_data, pp_target)
    /\ pp_data.cols[ColumnIndex(pp_data, pp_target)].dtype = "int64"

SplitDone == pp_split.X_train # <<>>

\* Every cell of the table carries the scaler's parameters
Scaled(X) ==
    \A j \in 1..Len(X.cols) : \A i \in 1..X.nrows :
        /\ DOMAIN X.cols[j].cells[i] = {"null", "num", "str", "mean", "var"}
        /\ X.cols[j].cells[i].mean = pp_self.scaler.mean_[j]
        /\ X.cols[j].cells[i].var = pp_self.scaler.var_[j]

Persisted == {pp_files[k][1] : k \in 1..Len(pp_files)}

\* C23: preprocess_pipeline imputes, encodes the feature columns, encodes the
\* target, splits, fits and applies the scaler, persists the transformers and
\* persists the partitions, in this order: each step's effect is present only
\* on top of the effects of the steps before it, and nothing is persisted
\* before scaling has completed.
C23_StepsInFixedOrder ==
    /\ pp_self.label_encoders # EmptyDict => NoNullCells(pp_data)
    /\ TargetEncoded => ObjectColumns(pp_data) = <<>>
    /\ SplitDone
       => /\ NoNullCells(pp_data)
          /\ ObjectColumns(pp_data) = <<>>
    /\ pp_self.scaler.fitted => SplitDone
    /\ Persisted # {}
       => /\ pp_self.scaler.fitted
          /\ Scaled(pp_split.X_train) /\ Scaled(pp_split.X_test)
          /\ {"scaler.pkl", "label_encoders.pkl"} \subseteq Persisted
          /\ DictGet(pp_files, "scaler.pkl") = pp_self.scaler
    /\ Persisted \ {"scaler.pkl", "label_encoders.pkl"} # {}
       => /\ Persisted = {"scaler.pkl", "label_encoders.pkl", "X_train.csv",
                          "X_test.csv", "y_train.csv", "y_test.csv"}
          /\ DictGet(pp_files, "X_train.csv") = pp_split.X_train
          /\ DictGet(pp_files, "X_test.csv") = pp_split.X_test
    /\ pp_pc = "returned" => Cardinality(Persisted) = 6

C23_Witness ==
    /\ pp_pc = "returned"
    /\ Cardinality(Persisted) = 6
    /\ Len(pp_self.label_encoders) = 2
    /\ Scaled(pp_split.X_test)


\* The values of column j of the training partition, before or after scaling
TrainValues(j) ==
    [i \in 1..pp_split.X_train.nrows |-> pp_split.X_train.cols[j].cells[i].num]

CommonDen(values) == SeqProduct([i \in 1..Len(values) |-> values[i].den])

\* m is the mean of values: sum(values) = n * m
IsMeanOf(m, values) ==
    SeqSum([i \in 1..Len(values) |->
               values[i].num * (CommonDen(values) \div values[i].den)]) * m.den
    = Len(values) * CommonDen(values) * m.num

\* v is the population variance of values: sum((x - m)^2) = n * v
IsVarianceOf(v, m, values) ==
    SeqSum([i \in 1..Len(values) |->
               LET dev == (values[i].num * m.den - m.num * values[i].den)
                          * (CommonDen(values) \div values[i].den)
               IN  dev * dev]) * v.den
    = Len(values) * v.num * (CommonDen(values) * m.den) * (CommonDen(values) * m.den)

\* C24: the parameters of the fitted scaler are the statistics of the rows of
\* the training partition alone, and transforming the test partition leaves
\* the fitted state of the scaler as it was.
C24_ScalerFittedOnTrainOnly ==
    /\ [](pp_self.scaler.fitted
          => /\ pp_self.scaler.n_samples_seen_ = pp_split.X_train.nrows
             /\ \A j \in 1..Len(pp_split.X_train.cols) :
                    /\ IsMeanOf(pp_self.scaler.mean_[j], TrainValues(j))
                    /\ IsVarianceOf(pp_self.scaler.var_[j], pp_self.scaler.mean_[j],
                                    TrainValues(j)))
    /\ [][pp_split'.X_test # pp_split.X_test /\ pp_split.X_test # <<>>
          => pp_self'.scaler = pp_self.scaler]_vars

C24_Witness ==
    /\ pp_pc = "returned"
    /\ pp_self.scaler.fitted
    /\ Scaled(pp_split.X_test)
    /\ pp_split.X_test.cols[1].cells[1].num # pp_split.X_train.cols[1].cells[1].num


\* The codes of the rows of a one-column view of a partition
CodesOf(col) == {col.cells[i].num.num : i \in 1..Len(col.cells)}

\* Every class of the encoder is the value of a row with one of the codes
FittedOn(le, codes) == \A k \in 1..Len(le.classes_) : (k - 1) \in codes

\* C25: every categorical encoder the pipeline stores is fitted on values of
\* the rows of the training partition only: each of its classes occurs in a
\* training row, for the feature columns and for the target.
C25_EncodersFittedOnTrainOnly ==
    SplitDone
    => /\ \A j \in 1..Len(pp_split.X_train.names) :
              LET col == pp_split.X_train.names[j]
              IN  (col # "target" /\ DictHas(pp_self.label_encoders, col))
                  => FittedOn(DictGet(pp_self.label_encoders, col),
                              CodesOf(pp_split.X_train.cols[j]))
       /\ (pp_split.y_train.cols[1].dtype = "int64"
           /\ DictHas(pp_self.label_encoders, "target"))
          => FittedOn(DictGet(pp_self.label_encoders, "target"),
                      CodesOf(pp_split.y_train.cols[1]))


\* The feature columns step 2 encoded
EncodedFeatures ==
    {j \in 1..Len(pp_data.cols) :
        pp_data.names[j] # pp_target /\ pp_data.cols[j].dtype = "int64"}

\* C26: after preprocess_pipeline on a dataset whose target is not numeric,
\* the encoder mapping holds the encoder of every categorical feature column
\* under the column's name and the encoder of the target under a key that is
\* the key of no feature encoder.
C26_EncoderKeysDistinct ==
    (pp_pc = "returned" /\ TargetEncoded)
    => /\ \A j \in EncodedFeatures :
              /\ DictHas(pp_self.label_encoders, pp_data.names[j])
              /\ FittedOn(DictGet(pp_self.label_encoders, pp_data.names[j]),
                          CodesOf(pp_data.cols[j]))
              /\ CodesOf(pp_data.cols[j])
                 = 0..(Len(DictGet(pp_self.label_encoders, pp_data.names[j]).classes_) - 1)
       /\ DictHas(pp_self.label_encoders, "target")
       /\ "target" \notin {pp_data.names[j] : j \in EncodedFeatures}
       /\ Len(pp_self.label_encoders) = Cardinality(EncodedFeatures) + 1


\* C27: when the target column is absent from the dataset, preprocess_pipeline
\* never gets past step 3, where it raises to its caller, and neither the
\* transformer bundle nor any of the four partitions is persisted.
C27_AbsentTargetRaisesBeforePersisting ==
    ~HasColumn(pp_data, pp_target)
    => /\ pp_files = EmptyDict
       /\ pp_pc \in {"handle_missing_values", "encode_categorical", "encode_target",
                     "raised"}

C27_Witness ==
    /\ ~HasColumn(pp_data, pp_target)
    /\ pp_pc = "raised"
    /\ pp_self.label_encoders # EmptyDict
    /\ pp_files = EmptyDict

-----------------------------------------------------------------------------
(* Claims about the class-level defaults of Config (checked under SpecConfig) *)

\* C28: constructing a Config, whatever the file and the environment, leaves
\* the class-level built-in defaults as they were, and a Config constructed
\* with no file and no environment override returns the original built-in
\* default for every key path that has one.
C28_DefaultsNeverChange ==
    /\ DEFAULT_CONFIG = BuiltInConfig
    /\ ( /\ c_call.op = "get"
         /\ Len(c_call.keys) = 2
         /\ c_config.file.kind = "absent"
         /\ c_config.env = {}
         /\ ValueAt(BuiltInConfig, c_call.keys) # NoneValue )
       => c_call.value = ValueAt(BuiltInConfig, c_call.keys)

-----------------------------------------------------------------------------
(* Claims about the artifacts of save_model (checked under SpecTrainer) *)

\* C29: whatever calls of train, load_model and save_model came before,
\* failing trains included, an artifact written by save_model holds a fitted
\* model together with the training metadata recorded for that model.
C29_SavedArtifactHoldsFittedModel ==
    (t_call.op = "save_model" /\ ~t_call.raised)
    => /\ disk[t_call.value].kind = "pickle"
       /\ disk[t_call.value].model.fitted
       /\ disk[t_call.value].training_info = InfoOf(disk[t_call.value].model)

-----------------------------------------------------------------------------
(* Claims about serving the models of a pipeline run (checked under SpecDeploy) *)

\* The model types the run trained and saved
TrainedAndSaved == DictKeySet(trained_models)

TrainedModel(model_type) == DictGet(trained_models, model_type).trainer

\* C30: once the server started after a pipeline run has finished its startup,
\* the registry holds, under the name of every model type the run trained and
\* saved, the model and training metadata of that run, and a /predict request
\* selecting such a type is answered with the prediction of that model.
C30_ServerLoadsPipelineModels ==
    startup_pc = "done"
    => /\ \A model_type \in TrainedAndSaved :
              /\ DictHas(loaded_models, model_type)
              /\ DictGet(loaded_models, model_type).model = TrainedModel(model_type).model
              /\ DictGet(loaded_models, model_type).training_info
                 = TrainedModel(model_type).training_info
       /\ ( /\ response.endpoint = "predict"
            /\ ValidPredictionRequest(LastRequest)
            /\ SelectedModel(LastRequest) \in TrainedAndSaved )
          => /\ response.status = 200
             /\ response.body.prediction
                = EstimatorPredict(TrainedModel(SelectedModel(LastRequest)).model,
                                   <<LastRequest.features>>).value[1]

C30_Witness ==
    /\ startup_pc = "done"
    /\ disk[ModelFile("decision_tree")] # EarlierRun(ModelFile("decision_tree"))
    /\ disk[ModelFile("gradient_boosting")] = EarlierRun(ModelFile("gradient_boosting"))
    /\ TrainedAndSaved = {"random_forest", "decision_tree"}
    /\ response.endpoint = "predict"
    /\ response.status = 200
    /\ LastRequest.model = "decision_tree"

====
